---------------------------- MODULE Spec2Model ----------------------------
(***************************************************************************)
(* A model of the integration test-matrix runner of hytromo/mimosa         *)
(* (tests-integration/run_tests.py and its helpers): the enumeration of    *)
(* the configuration matrix in main, the bounded scheduler of worker       *)
(* processes with fail-fast, and the build / mutate / verify sequence of   *)
(* one case (run_test, run_command_with_expectations).                     *)
(*                                                                         *)
(* Strings read from the environment are sequences of tokens: a token is   *)
(* "," (the separator), " " (white space) or a run of other characters.    *)
(***************************************************************************)
EXTENDS Integers, Sequences, FiniteSets, TLC

VARIABLES
  env,                  \* os.environ: field name -> value (<<>> when unset)
  loop_k,               \* position of the nested for loops of main
  test_configs,         \* main: list of (setup_config, output_dir)
  pc,                   \* position of main
  pending_test_configs, \* main: deque of the cases not started yet
  running_processes,    \* main: list of the in-flight processes
  all_processes,        \* main: list of every process started
  process_to_config,    \* main: process -> (cfg, outdir, num)
  exitcode,             \* Process.exitcode of every started process
  total_tests_run,      \* main
  failed_num,           \* main
  poll_list,            \* the copy list(running_processes) the poll iterates
  poll_i,               \* index of the poll loop in poll_list
  cleanup_i,            \* index of the cleanup loop in all_processes
  pending_exc,          \* the exception propagating out of the try block
  failure_seen,         \* history: a polled worker was seen with exitcode # 0
  summary,              \* content of integration_tests_summary.json
  exit_status,          \* exit status of the run
  \* ---- one case: run_test in a worker process ----
  setup_config,         \* run_test: the SetupConfig of the case
  case_pc,              \* position of run_test
  bakefiles,            \* run_test: the files create_bakefiles returned
  dockerfiles,          \* run_test: the files create_dockerfiles returned
  other_files,          \* run_test: the files create_other_files returned
  original_uuid,        \* run_test
  initial_1st_target_tags, \* run_test
  tested_changes,       \* run_test: the file types whose rebuild passed
  at_least_one_major_file_change, \* run_test
  file_type_i,          \* index in ["excluded", "included"]
  file_i,               \* index of the loop over bakefiles / dockerfiles
  command,              \* the Command of the call being made
  commands,             \* history: the Commands made, in their order
  cache_hit,            \* argument cache_hit of that call
  expect_same,          \* argument expect_same_manifests_with_on_cache_hit
  mutations,            \* history: the files written after the scaffold
  rebuilds,             \* history: the rebuilds that passed, with their file
  registry,             \* the registry: (host, image, tag) -> response
  last_step,            \* history: the step whose command passed last
  last_result,          \* history: the tool's result in that step
  last_listing,         \* history: tag -> the listing of its image then
  failure,              \* the exception that ended run_test
  worker_exit,          \* the exit code of the worker process of the case
  \* ---- one call of a function on its own ----
  fn_in,                \* the argument of the call
  fn_out,               \* what the call returned or raised
  \* ---- one case of the e2e runner: MimosaTestRunner.run_test_case ----
  run_pc,               \* position of run_test_case
  rewrite_files,        \* scaffolder.get_rewrite_files() of the test case
  temp_dir,             \* scaffolder.temp_dir
  temp_dirs,            \* file system: the temporary directories that exist
  first_tag,            \* run_test_case
  last_tag_without_cache_hit, \* run_test_case
  rewrite_i,            \* index of the loop over rewrite_files
  runs,                 \* history: the builds of the case and their results
  compared,             \* history: the calls of _assert_image_manifests
  test_result           \* what run_test_case returned or raised

schedVars == <<pc, pending_test_configs, running_processes, all_processes,
               process_to_config, exitcode, total_tests_run, failed_num,
               poll_list, poll_i, cleanup_i, pending_exc, failure_seen,
               summary, exit_status>>
enumVars == <<env, loop_k, test_configs>>
fnVars == <<fn_in, fn_out>>
e2eVars == <<run_pc, rewrite_files, temp_dir, temp_dirs, first_tag,
             last_tag_without_cache_hit, rewrite_i, runs, compared,
             test_result>>
caseVars == <<setup_config, case_pc, bakefiles, dockerfiles, other_files,
              original_uuid, initial_1st_target_tags, tested_changes,
              at_least_one_major_file_change, file_type_i, file_i, command,
              commands, cache_hit, expect_same, mutations, rebuilds, registry,
              last_step, last_result, last_listing, failure,
              worker_exit>>

\* an optional value: None, or Some(v)
None == <<>>
Some(v) == <<v>>

\* no exception is propagating
NoException == "none"

(***************************************************************************)
(* Bounds of the model.                                                    *)
(***************************************************************************)
\* the longest matrix the scheduler is run on (the environment repeats a
\* value of bakefile_type up to MaxCases times)
MaxCases == 6

(***************************************************************************)
(* env_variable_to_list: value.split(","), item.strip(), empty items       *)
(* dropped; the default when the variable is unset or empty.               *)
(***************************************************************************)
RECURSIVE SplitFrom(_, _, _, _)
SplitFrom(value, sep, i, cur) ==
  IF i > Len(value) THEN <<cur>>
  ELSE IF value[i] = sep THEN <<cur>> \o SplitFrom(value, sep, i + 1, <<>>)
  ELSE SplitFrom(value, sep, i + 1, Append(cur, value[i]))

\* str.split(sep): the pieces between the separators, empty pieces kept
SplitOn(value, sep) == SplitFrom(value, sep, 1, <<>>)

\* value.split(",")
Split(value) == SplitOn(value, ",")

RECURSIVE LStrip(_)
LStrip(s) == IF s # <<>> /\ Head(s) = " " THEN LStrip(Tail(s)) ELSE s

RECURSIVE RStrip(_)
RStrip(s) ==
  IF s # <<>> /\ s[Len(s)] = " " THEN RStrip(SubSeq(s, 1, Len(s) - 1)) ELSE s

\* str.strip()
Strip(s) == RStrip(LStrip(s))

RECURSIVE Join(_)
\* the string a token sequence stands for
Join(s) == IF s = <<>> THEN "" ELSE Head(s) \o Join(Tail(s))

RECURSIVE StripNonEmpty(_)
\* [item.strip() for item in pieces if item.strip()]
StripNonEmpty(pieces) ==
  IF pieces = <<>> THEN <<>>
  ELSE LET item == Strip(Head(pieces))
       IN  (IF item # <<>> THEN <<Join(item)>> ELSE <<>>)
             \o StripNonEmpty(Tail(pieces))

env_variable_to_list(e, var_name, default_value) ==
  LET value == e[var_name]
  IN  IF value = <<>> THEN default_value ELSE StripNonEmpty(Split(value))

(***************************************************************************)
(* The field domains of main and the nested loops over them.               *)
(***************************************************************************)
FieldNames == <<"bakefile_type", "bakefile_location", "dockerfile_type",
                "dockerfile_location", "targets", "dockerignore", "context">>

DefaultDomain(f) ==
  CASE f = "bakefile_type" -> <<"single", "multiple", "none">>
    [] f = "bakefile_location" -> <<"root", "subdir">>
    [] f = "dockerfile_type" -> <<"single", "multiple">>
    [] f = "dockerfile_location" -> <<"root", "subdir">>
    [] f = "targets" -> <<"single", "multiple">>
    [] f = "dockerignore" -> <<"single", "multiple", "none">>
    [] f = "context" -> <<"cwd", "subdir">>

\* the list the loop over field f iterates
Domain(e, f) == env_variable_to_list(e, f, DefaultDomain(f))

RECURSIVE ProductFrom(_, _)
\* the number of iterations of the loops over fields j..7
ProductFrom(e, j) ==
  IF j > Len(FieldNames) THEN 1
  ELSE Len(Domain(e, FieldNames[j])) * ProductFrom(e, j + 1)

\* the number of times the body of the innermost loop runs
Iterations(e) == ProductFrom(e, 1)

\* the value of field number j in iteration k (k counts from 0): the loops
\* nest in the order of FieldNames, the last field varying fastest
LoopValue(e, k, j) ==
  LET d == Domain(e, FieldNames[j])
  IN  d[((k \div ProductFrom(e, j + 1)) % Len(d)) + 1]

\* the loop variables of iteration k, as the dict setup_config holds them
LoopTuple(e, k) ==
  [f \in {FieldNames[j] : j \in 1..Len(FieldNames)} |->
     LoopValue(e, k, CHOOSE j \in 1..Len(FieldNames) : FieldNames[j] = f)]

\* Pruned without its last branch (bakefile_type multiple, context subdir)
PrunedTwoBranches(c) ==
  IF c.bakefile_type = "none"
    THEN \/ c.dockerfile_type = "multiple"
         \/ c.dockerignore = "multiple"
         \/ c.targets = "multiple"
    ELSE IF c.bakefile_type = "single" /\ c.context = "subdir" THEN TRUE
    ELSE FALSE

\* the three branches of main that end in `continue`
Pruned(c) ==
  IF c.bakefile_type = "none"
    THEN \/ c.dockerfile_type = "multiple"
         \/ c.dockerignore = "multiple"
         \/ c.targets = "multiple"
    ELSE IF c.bakefile_type = "single" /\ c.context = "subdir" THEN TRUE
    ELSE IF c.bakefile_type = "multiple" /\ c.context = "subdir" THEN TRUE
    ELSE FALSE


(***************************************************************************)
(* main, part 1: building test_configs.  One step is one run of the body   *)
(* of the innermost loop: the pruning tests, then mkdtemp and append.      *)
(***************************************************************************)
EnumStep ==
  /\ pc = "enumerate"
  /\ loop_k < Iterations(env)
  /\ LET config == LoopTuple(env, loop_k)      \* setup_config of main
         output_dir == Len(test_configs) + 1   \* mkdtemp: a fresh directory
     IN  test_configs' =
           IF Pruned(config) THEN test_configs
           ELSE Append(test_configs,
                       [cfg |-> config, outdir |-> output_dir])
  /\ loop_k' = loop_k + 1
  /\ UNCHANGED <<env, schedVars, caseVars, fnVars, e2eVars>>

\* the loops are over: the scheduler's collections are created
EnumDone ==
  /\ pc = "enumerate"
  /\ loop_k = Iterations(env)
  /\ pending_test_configs' = test_configs
  /\ pc' = "loop"
  /\ UNCHANGED <<fnVars, e2eVars, caseVars, enumVars, running_processes, all_processes,
                 process_to_config, exitcode, total_tests_run, failed_num,
                 poll_list, poll_i, cleanup_i, pending_exc, failure_seen,
                 summary, exit_status>>

(***************************************************************************)
(* main, part 2: the scheduler loop.                                       *)
(***************************************************************************)
max_workers == 5

\* the exit code of a process ended by Process.terminate() (SIGTERM)
SIGTERM_EXIT == -15

\* the exit codes a worker ends with by itself: 0 when run_test returns,
\* 1 when run_test_worker re-raises
WorkerExitCodes == {0, 1}

\* list.remove(x): the list without its first x
Remove(list, x) ==
  LET i == CHOOSE j \in 1..Len(list) :
             list[j] = x /\ \A h \in 1..(j - 1) : list[h] # x
  IN  SubSeq(list, 1, i - 1) \o SubSeq(list, i + 1, Len(list))

\* while pending_test_configs or running_processes
LoopHead ==
  /\ pc = "loop"
  /\ IF pending_test_configs # <<>> \/ running_processes # <<>>
       THEN pc' = "start" /\ UNCHANGED cleanup_i
       ELSE pc' = "cleanup" /\ cleanup_i' = 1
  /\ UNCHANGED <<fnVars, e2eVars, caseVars, enumVars, pending_test_configs, running_processes,
                 all_processes, process_to_config, exitcode, total_tests_run,
                 failed_num, poll_list, poll_i, pending_exc, failure_seen,
                 summary, exit_status>>

\* StartProcess with the slot test off by one (<= for <)
StartProcessOneMore ==
  /\ pc = "start"
  /\ pending_test_configs # <<>>
  /\ Len(running_processes) <= max_workers
  /\ LET job == Head(pending_test_configs)
         new_process == Len(all_processes) + 1
     IN  /\ pending_test_configs' = Tail(pending_test_configs)
         /\ total_tests_run' = total_tests_run + 1
         /\ exitcode' = exitcode @@ (new_process :> None)
         /\ running_processes' = Append(running_processes, new_process)
         /\ all_processes' = Append(all_processes, new_process)
         /\ process_to_config' = process_to_config @@
              (new_process :> [cfg |-> job.cfg, outdir |-> job.outdir,
                               num |-> Len(all_processes) + 1])
  /\ UNCHANGED <<fnVars, e2eVars, caseVars, enumVars, pc, failed_num, poll_list, poll_i, cleanup_i,
                 pending_exc, failure_seen, summary, exit_status>>

\* StartProcess taking the last pending configuration (pop for popleft)
StartProcessPopRight ==
  /\ pc = "start"
  /\ pending_test_configs # <<>>
  /\ Len(running_processes) < max_workers
  /\ LET job == pending_test_configs[Len(pending_test_configs)]
         new_process == Len(all_processes) + 1
     IN  /\ pending_test_configs' =
              SubSeq(pending_test_configs, 1, Len(pending_test_configs) - 1)
         /\ total_tests_run' = total_tests_run + 1
         /\ exitcode' = exitcode @@ (new_process :> None)
         /\ running_processes' = Append(running_processes, new_process)
         /\ all_processes' = Append(all_processes, new_process)
         /\ process_to_config' = process_to_config @@
              (new_process :> [cfg |-> job.cfg, outdir |-> job.outdir,
                               num |-> Len(all_processes) + 1])
  /\ UNCHANGED <<fnVars, e2eVars, caseVars, enumVars, pc, failed_num, poll_list, poll_i, cleanup_i,
                 pending_exc, failure_seen, summary, exit_status>>

\* StartProcess that reads the head of the queue and leaves it there
StartProcessNoPop ==
  /\ pc = "start"
  /\ pending_test_configs # <<>>
  /\ Len(running_processes) < max_workers
  /\ LET job == Head(pending_test_configs)
         new_process == Len(all_processes) + 1
     IN  /\ pending_test_configs' = pending_test_configs
         /\ total_tests_run' = total_tests_run + 1
         /\ exitcode' = exitcode @@ (new_process :> None)
         /\ running_processes' = Append(running_processes, new_process)
         /\ all_processes' = Append(all_processes, new_process)
         /\ process_to_config' = process_to_config @@
              (new_process :> [cfg |-> job.cfg, outdir |-> job.outdir,
                               num |-> Len(all_processes) + 1])
  /\ UNCHANGED <<fnVars, e2eVars, caseVars, enumVars, pc, failed_num, poll_list, poll_i, cleanup_i,
                 pending_exc, failure_seen, summary, exit_status>>

\* one run of the body of the inner while: popleft, count, start, record
StartProcess ==
  /\ pc = "start"
  /\ pending_test_configs # <<>>
  /\ Len(running_processes) < max_workers
  /\ LET job == Head(pending_test_configs)
         new_process == Len(all_processes) + 1
     IN  /\ pending_test_configs' = Tail(pending_test_configs)
         /\ total_tests_run' = total_tests_run + 1
         /\ exitcode' = exitcode @@ (new_process :> None)
         /\ running_processes' = Append(running_processes, new_process)
         /\ all_processes' = Append(all_processes, new_process)
         /\ process_to_config' = process_to_config @@
              (new_process :> [cfg |-> job.cfg, outdir |-> job.outdir,
                               num |-> Len(all_processes) + 1])
  /\ UNCHANGED <<fnVars, e2eVars, caseVars, enumVars, pc, failed_num, poll_list, poll_i, cleanup_i,
                 pending_exc, failure_seen, summary, exit_status>>

\* StartDone with the inner while left before its condition is false (an
\* if for the while: a pass starts what it started so far and goes to poll)
StartDoneEarly ==
  /\ pc = "start"
  /\ pc' = "poll"
  /\ poll_list' = running_processes
  /\ poll_i' = 1
  /\ UNCHANGED <<fnVars, e2eVars, caseVars, enumVars, pending_test_configs, running_processes,
                 all_processes, process_to_config, exitcode, total_tests_run,
                 failed_num, cleanup_i, pending_exc, failure_seen, summary,
                 exit_status>>

\* the inner while ends; the poll takes its copy of running_processes
StartDone ==
  /\ pc = "start"
  /\ ~(pending_test_configs # <<>> /\ Len(running_processes) < max_workers)
  /\ pc' = "poll"
  /\ poll_list' = running_processes
  /\ poll_i' = 1
  /\ UNCHANGED <<fnVars, e2eVars, caseVars, enumVars, pending_test_configs, running_processes,
                 all_processes, process_to_config, exitcode, total_tests_run,
                 failed_num, cleanup_i, pending_exc, failure_seen, summary,
                 exit_status>>

\* exitcode is None: continue
PollAlive ==
  /\ pc = "poll"
  /\ poll_i <= Len(poll_list)
  /\ exitcode[poll_list[poll_i]] = None
  /\ poll_i' = poll_i + 1
  /\ UNCHANGED <<fnVars, e2eVars, caseVars, enumVars, pc, pending_test_configs, running_processes,
                 all_processes, process_to_config, exitcode, total_tests_run,
                 failed_num, poll_list, cleanup_i, pending_exc, failure_seen,
                 summary, exit_status>>

\* PollPassed without the remove: the process that ended stays in the list
PollPassedStays ==
  /\ pc = "poll"
  /\ poll_i <= Len(poll_list)
  /\ exitcode[poll_list[poll_i]] = Some(0)
  /\ running_processes' = running_processes
  /\ poll_i' = poll_i + 1
  /\ UNCHANGED <<fnVars, e2eVars, caseVars, enumVars, pc, pending_test_configs, all_processes,
                 process_to_config, exitcode, total_tests_run, failed_num,
                 poll_list, cleanup_i, pending_exc, failure_seen, summary,
                 exit_status>>

\* exitcode is 0: the process leaves running_processes
PollPassed ==
  /\ pc = "poll"
  /\ poll_i <= Len(poll_list)
  /\ exitcode[poll_list[poll_i]] = Some(0)
  /\ running_processes' = Remove(running_processes, poll_list[poll_i])
  /\ poll_i' = poll_i + 1
  /\ UNCHANGED <<fnVars, e2eVars, caseVars, enumVars, pc, pending_test_configs, all_processes,
                 process_to_config, exitcode, total_tests_run, failed_num,
                 poll_list, cleanup_i, pending_exc, failure_seen, summary,
                 exit_status>>

\* PollFailed without the raise: the failure is noted and the poll goes on
PollFailedGoesOn ==
  /\ pc = "poll"
  /\ poll_i <= Len(poll_list)
  /\ exitcode[poll_list[poll_i]] \notin {None, Some(0)}
  /\ running_processes' = Remove(running_processes, poll_list[poll_i])
  /\ failure_seen' = TRUE
  /\ failed_num' = failed_num + 1
  /\ poll_i' = poll_i + 1
  /\ UNCHANGED <<fnVars, e2eVars, caseVars, enumVars, pc, pending_test_configs, all_processes,
                 process_to_config, exitcode, total_tests_run, poll_list,
                 cleanup_i, pending_exc, summary, exit_status>>

\* exitcode is neither None nor 0: the process leaves running_processes and
\* main goes on to print the log of the case
PollFailed ==
  /\ pc = "poll"
  /\ poll_i <= Len(poll_list)
  /\ exitcode[poll_list[poll_i]] \notin {None, Some(0)}
  /\ running_processes' = Remove(running_processes, poll_list[poll_i])
  /\ failure_seen' = TRUE
  /\ pc' = "readlog"
  /\ UNCHANGED <<fnVars, e2eVars, caseVars, enumVars, pending_test_configs, all_processes,
                 process_to_config, exitcode, total_tests_run, failed_num,
                 poll_list, poll_i, cleanup_i, pending_exc, summary,
                 exit_status>>

\* the log is read and printed; failed_num += 1; raise SystemExit(1)
ReadLog ==
  /\ pc = "readlog"
  /\ failed_num' = failed_num + 1
  /\ pending_exc' = "SystemExit"
  /\ pc' = "cleanup"
  /\ cleanup_i' = 1
  /\ UNCHANGED <<fnVars, e2eVars, caseVars, enumVars, pending_test_configs, running_processes,
                 all_processes, process_to_config, exitcode, total_tests_run,
                 poll_list, poll_i, failure_seen, summary, exit_status>>

\* open() of the log raises (the worker died before it created the file)
ReadLogRaises ==
  /\ pc = "readlog"
  /\ pending_exc' = "OSError"
  /\ pc' = "cleanup"
  /\ cleanup_i' = 1
  /\ UNCHANGED <<fnVars, e2eVars, caseVars, enumVars, pending_test_configs, running_processes,
                 all_processes, process_to_config, exitcode, total_tests_run,
                 failed_num, poll_list, poll_i, failure_seen, summary,
                 exit_status>>

\* the for loop of the poll is over; time.sleep(0.1); back to the while
PollDone ==
  /\ pc = "poll"
  /\ poll_i > Len(poll_list)
  /\ pc' = "loop"
  /\ UNCHANGED <<fnVars, e2eVars, caseVars, enumVars, pending_test_configs, running_processes,
                 all_processes, process_to_config, exitcode, total_tests_run,
                 failed_num, poll_list, poll_i, cleanup_i, pending_exc,
                 failure_seen, summary, exit_status>>

(***************************************************************************)
(* main, part 3: the finally block and what follows it.                    *)
(***************************************************************************)
\* CleanupStep without terminate(): join(timeout=1) alone, which returns
\* after a second with the process still running
CleanupStepJoinOnly ==
  /\ pc = "cleanup"
  /\ cleanup_i <= Len(all_processes)
  /\ cleanup_i' = cleanup_i + 1
  /\ UNCHANGED <<fnVars, e2eVars, caseVars, enumVars, pc, pending_test_configs, running_processes,
                 all_processes, process_to_config, exitcode, total_tests_run,
                 failed_num, poll_list, poll_i, pending_exc, failure_seen,
                 summary, exit_status>>

\* one run of the body of the cleanup loop: terminate() a process that is
\* alive, which ends it with SIGTERM (run_test_worker installs no handler),
\* then join(timeout=1)
CleanupStep ==
  /\ pc = "cleanup"
  /\ cleanup_i <= Len(all_processes)
  /\ LET running_process == all_processes[cleanup_i]
     IN  exitcode' =
           IF exitcode[running_process] = None
             THEN [exitcode EXCEPT ![running_process] = Some(SIGTERM_EXIT)]
             ELSE exitcode
  /\ cleanup_i' = cleanup_i + 1
  /\ UNCHANGED <<fnVars, e2eVars, caseVars, enumVars, pc, pending_test_configs, running_processes,
                 all_processes, process_to_config, total_tests_run,
                 failed_num, poll_list, poll_i, pending_exc, failure_seen,
                 summary, exit_status>>

\* WriteSummary placed after the try statement instead of in its finally:
\* skipped when an exception propagates
WriteSummaryAfterTry ==
  /\ pc = "cleanup"
  /\ cleanup_i > Len(all_processes)
  /\ summary' = IF pending_exc = NoException
                  THEN Some([total_tests_run |-> total_tests_run])
                  ELSE summary
  /\ pc' = "after_finally"
  /\ UNCHANGED <<fnVars, e2eVars, caseVars, enumVars, pending_test_configs, running_processes,
                 all_processes, process_to_config, exitcode, total_tests_run,
                 failed_num, poll_list, poll_i, cleanup_i, pending_exc,
                 failure_seen, exit_status>>

\* json.dump({"total_tests_run": total_tests_run}) at the end of finally
WriteSummary ==
  /\ pc = "cleanup"
  /\ cleanup_i > Len(all_processes)
  /\ summary' = Some([total_tests_run |-> total_tests_run])
  /\ pc' = "after_finally"
  /\ UNCHANGED <<fnVars, e2eVars, caseVars, enumVars, pending_test_configs, running_processes,
                 all_processes, process_to_config, exitcode, total_tests_run,
                 failed_num, poll_list, poll_i, cleanup_i, pending_exc,
                 failure_seen, exit_status>>

\* ExitStatus that looks at failed_num alone
ExitStatusByCount(exc, failed) == IF failed > 0 THEN 1 ELSE 0

\* the exit status of the interpreter: 1 for SystemExit(1), for an uncaught
\* exception and for SystemExit(<message>); 0 when main returns
ExitStatus(exc, failed) ==
  IF exc # NoException THEN 1
  ELSE IF failed > 0 THEN 1
  ELSE 0

\* the pending exception propagates, or the lines after the finally run
Finish ==
  /\ pc = "after_finally"
  /\ exit_status' = Some(ExitStatus(pending_exc, failed_num))
  /\ pc' = "exit"
  /\ UNCHANGED <<fnVars, e2eVars, caseVars, enumVars, pending_test_configs, running_processes,
                 all_processes, process_to_config, exitcode, total_tests_run,
                 failed_num, poll_list, poll_i, cleanup_i, pending_exc,
                 failure_seen, summary>>

(***************************************************************************)
(* The worker processes, as the scheduler sees them: a started process     *)
(* ends by itself at any time, with one of the exit codes of               *)
(* run_test_worker.                                                        *)
(***************************************************************************)
WorkerExit ==
  /\ pc \in {"start", "poll", "loop", "readlog", "cleanup"}
  /\ \E p \in DOMAIN exitcode, code \in WorkerExitCodes :
       /\ exitcode[p] = None
       /\ exitcode' = [exitcode EXCEPT ![p] = Some(code)]
  /\ UNCHANGED <<fnVars, e2eVars, caseVars, enumVars, pc, pending_test_configs, running_processes,
                 all_processes, process_to_config, total_tests_run,
                 failed_num, poll_list, poll_i, cleanup_i, pending_exc,
                 failure_seen, summary, exit_status>>

(***************************************************************************)
(* One case, part 1: the scaffold of test_creator.py, the tags of          *)
(* generate_target_tags and the Command of generate_docker_command.        *)
(* A path is a pair <<directory, name>> under output_dir.  A tag is a      *)
(* sequence of tokens: "/" and ":" are tokens of their own.                *)
(***************************************************************************)
File(dir, name) == [dir |-> dir, name |-> name]

ParentDir(location) == IF location = "subdir" THEN "subdir" ELSE "."

create_bakefiles(cfg) ==
  IF cfg.bakefile_type = "none" THEN <<>>
  ELSE <<File(ParentDir(cfg.bakefile_location), "docker-bake.hcl")>>
       \o (IF cfg.bakefile_type = "multiple"
           THEN <<File(ParentDir(cfg.bakefile_location),
                       "docker-bake.override.hcl")>>
           ELSE <<>>)

create_dockerfiles(cfg) ==
  <<File(ParentDir(cfg.dockerfile_location),
         IF cfg.dockerfile_type = "single" THEN "Dockerfile"
         ELSE "Dockerfile.target1")>>
  \o (IF cfg.dockerfile_type = "multiple"
      THEN <<File(ParentDir(cfg.dockerfile_location), "Dockerfile.target2")>>
      ELSE <<>>)

\* create_dockerignores: the branch is taken on dockerfile_type
create_dockerignores(cfg, dfiles) ==
  IF cfg.dockerfile_type = "multiple"
  THEN [k \in 1..Len(dfiles) |->
          File(dfiles[k].dir, dfiles[k].name \o ".dockerignore")]
       \o <<File(".", ".dockerignore")>>
  ELSE <<File(ParentDir(cfg.context), ".dockerignore")>>

create_other_files(cfg) ==
  <<File(ParentDir(cfg.context), "included_file.txt"),
    File(ParentDir(cfg.context), "excluded_file.txt")>>

\* str(uuid.uuid4()): the one a case draws
FreshUuid == "uuid-1"

\* f"localhost:5000/{uuid}/{image}:{suffix}"
TagOf(uuid, image, suffix) ==
  <<"localhost", ":", "5000", "/", uuid, "/", image, ":", suffix>>

generate_target_tags(suffix, existing_uuid) ==
  LET uuid_to_use == IF existing_uuid = None THEN FreshUuid
                     ELSE existing_uuid[1]
  IN [uuid |-> uuid_to_use,
      first_target_tags |-> <<TagOf(uuid_to_use, "target1_1st", suffix),
                              TagOf(uuid_to_use, "target1_2nd", suffix)>>,
      second_target_tags |-> <<TagOf(uuid_to_use, "target2_1st", suffix),
                               TagOf(uuid_to_use, "target2_2nd", suffix)>>]

\* an entry of the dict tagsByTarget; the dict keeps the insertion order
TargetEntry(target, tags) == [target |-> target, tags |-> tags]

IsError(c) == "error" \in DOMAIN c

\* the characters of a sequence of tokens as one string
RECURSIVE Concat(_)
Concat(tokens) ==
  IF tokens = <<>> THEN "" ELSE Head(tokens) \o Concat(Tail(tokens))

\* the path of a file relative to the working directory
RelativePath(file) ==
  IF file.dir = "." THEN file.name ELSE file.dir \o "/" \o file.name

\* the environment main was started with
OsEnviron == ("PATH" :> "/usr/bin") @@ ("LOG_LEVEL" :> "INFO")

\* {**a, **b}: the entries of b over those of a
DictOver(a, b) == b @@ a

\* tempfile.mkdtemp(prefix="mimosa_", suffix="_cache"): the n-th directory
\* made, a new one in every call
FreshCacheDir(n) == "mimosa_" \o ToString(n) \o "_cache"

\* get_disk_cache_to_env: export is what `mimosa cache --export-to` wrote,
\* None when the tool failed (check=True)
get_disk_cache_to_env(cache_dir, export) ==
  IF export = None THEN [error |-> "CalledProcessError"]
  ELSE [env |-> ("MIMOSA_CACHE" :> export[1])]

\* " ".join([f"-t {tag}" for tag in tags]), as the words of the shell
RECURSIVE TagArgs(_)
TagArgs(tags) ==
  IF tags = <<>> THEN <<>>
  ELSE <<"-t", Concat(Head(tags))>> \o TagArgs(Tail(tags))

\* BakeFileArgs naming the first bake file only
BakeFileArgsFirstOnly(files) ==
  IF files = <<>> THEN <<>> ELSE <<"-f", files[1].dir \o "/" \o files[1].name>>

\* " ".join([f"-f {bakefile.location.relative_to(cwd)}" ...])
RECURSIVE BakeFileArgs(_)
BakeFileArgs(files) ==
  IF files = <<>> THEN <<>>
  ELSE <<"-f", RelativePath(Head(files))>> \o BakeFileArgs(Tail(files))

\* ",".join(tags)
RECURSIVE CommaJoin(_)
CommaJoin(tags) ==
  IF tags = <<>> THEN ""
  ELSE IF Len(tags) = 1 THEN Concat(tags[1])
  ELSE Concat(Head(tags)) \o "," \o CommaJoin(Tail(tags))

\* the build engine called with no tool in front of it
ToolPrefixEngineOnly == <<"docker", "buildx">>

\* the words every command starts with
ToolPrefix == <<"/usr/local/bin/mimosa", "remember", "--", "docker", "buildx">>

\* the Command: the words of the command line, the working directory "."
\* (output_dir), tagsByTarget, the environment, and the kind of build the
\* checks tell apart; an exception is the record with the field error
generate_docker_command(cfg, dfiles, bfiles, first_target_tags, second_target_tags, cache_dir, cache_source, export, mkdtemp) ==
  LET final_cache_dir == IF cache_dir # None THEN cache_dir[1]
                         ELSE mkdtemp
      extra == IF cache_source = Some("memory")
               THEN get_disk_cache_to_env(final_cache_dir, export)
               ELSE [env |-> <<>>]
  IN IF IsError(extra) THEN extra
     ELSE IF cfg.bakefile_type = "none"
     THEN IF Len(dfiles) > 1 THEN [error |-> "ValueError"]
          ELSE IF Len(dfiles) = 0 THEN [error |-> "IndexError"]
          ELSE LET dockerfileRelativePath == RelativePath(dfiles[1])
                   dockerFileArg ==
                     IF dockerfileRelativePath = "Dockerfile" /\ cfg.context = "cwd"
                     THEN <<>>
                     ELSE <<"-f", dockerfileRelativePath>>
                   context == IF cfg.context = "cwd" THEN "." ELSE "subdir"
               IN [kind |-> "build",
                   command |-> ToolPrefix
                     \o <<"build", "--push", "--platform", "linux/amd64,linux/arm64">>
                     \o dockerFileArg \o TagArgs(first_target_tags) \o <<context>>,
                   cwd |-> ".",
                   tagsByTarget |-> <<TargetEntry("target1", first_target_tags)>>,
                   env |-> DictOver(DictOver(OsEnviron,
                                             ("LOG_LEVEL" :> "DEBUG")
                                               @@ ("MIMOSA_CACHE_DIR" :> final_cache_dir)),
                                    extra.env)]
     ELSE [kind |-> "bake",
           command |-> ToolPrefix \o <<"bake", "--push">>
             \o (IF cfg.bakefile_location = "subdir" THEN BakeFileArgs(bfiles)
                 ELSE <<>>),
           cwd |-> ".",
           tagsByTarget |->
             <<TargetEntry("target1", first_target_tags)>>
             \o (IF cfg.targets = "multiple"
                 THEN <<TargetEntry("target2", second_target_tags)>>
                 ELSE <<>>),
           env |-> DictOver(DictOver(OsEnviron,
                                     ("LOG_LEVEL" :> "DEBUG")
                                       @@ ("TARGET1_TAGS" :> CommaJoin(first_target_tags))
                                       @@ ("TARGET2_TAGS" :> CommaJoin(second_target_tags))
                                       @@ ("MIMOSA_CACHE_DIR" :> final_cache_dir)),
                            extra.env)]

\* the tags of tagsByTarget in the order of its two nested loops
RECURSIVE TagsInOrder(_)
TagsInOrder(tagsByTarget) ==
  IF tagsByTarget = <<>> THEN <<>>
  ELSE Head(tagsByTarget).tags \o TagsInOrder(Tail(tagsByTarget))

\* tagsByTarget["target1"]
RECURSIVE TagsOfTarget(_, _)
TagsOfTarget(tagsByTarget, target) ==
  IF tagsByTarget = <<>> THEN None
  ELSE IF Head(tagsByTarget).target = target THEN Some(Head(tagsByTarget).tags)
  ELSE TagsOfTarget(Tail(tagsByTarget), target)

(***************************************************************************)
(* One case, part 2: the registry client of docker.py.                     *)
(***************************************************************************)
\* tag.rindex("/"): 0 stands for the ValueError
RECURSIVE RIndex(_, _, _)
RIndex(value, sep, i) ==
  IF i = 0 THEN 0
  ELSE IF value[i] = sep THEN i
  ELSE RIndex(value, sep, i - 1)

\* the index of the first sep of value from i on, 0 when there is none
RECURSIVE Index(_, _, _)
Index(value, sep, i) ==
  IF i > Len(value) THEN 0
  ELSE IF value[i] = sep THEN i
  ELSE Index(value, sep, i + 1)

\* decompose_tag with the host cut at the first slash, the image at the last
decompose_tagHostByFirstSlash(tag) ==
  LET first_index == Index(tag, "/", 1)
      hostname_index == RIndex(tag, "/", Len(tag))
      image_name_full == SubSeq(tag, hostname_index + 1, Len(tag))
      pieces == SplitOn(image_name_full, ":")
  IN IF hostname_index = 0 \/ Len(pieces) # 2
     THEN [error |-> "ValueError"]
     ELSE [hostname |-> "http://" \o Concat(SubSeq(tag, 1, first_index - 1)),
           image_name |-> Concat(pieces[1]),
           tag_name |-> Concat(pieces[2])]

decompose_tag(tag) ==
  LET hostname_index == RIndex(tag, "/", Len(tag))
      image_name_full == SubSeq(tag, hostname_index + 1, Len(tag))
      pieces == SplitOn(image_name_full, ":")
  IN IF hostname_index = 0 \/ Len(pieces) # 2
     THEN [error |-> "ValueError"]
     ELSE [hostname |-> "http://" \o Concat(SubSeq(tag, 1, hostname_index - 1)),
           image_name |-> Concat(pieces[1]),
           tag_name |-> Concat(pieces[2])]

\* a platform manifest of a manifest list; variant "" is no variant
PlatformManifest(os, architecture, variant, digest) ==
  [os |-> os, architecture |-> architecture, variant |-> variant,
   digest |-> digest]

\* the responses of the registry to GET /v2/<image>/manifests/<tag>:
\* the status, the Docker-Content-Digest header ("" when missing), whether
\* the body has the key "manifests", and its entries
Response(status, header, has_manifests, manifests) ==
  [status |-> status, header |-> header, has_manifests |-> has_manifests,
   manifests |-> manifests]

\* client.get did not return: the httpx exception it raised
HttpxRaised(exc) == [raised |-> exc]

NotFound == Response(404, "", FALSE, <<>>)

IndexA ==
  Response(200, "sha256:index-a", TRUE,
           <<PlatformManifest("linux", "amd64", "", "sha256:a1"),
             PlatformManifest("linux", "arm64", "", "sha256:a2")>>)

\* another build: the amd64 image is the one of IndexA, the arm64 is not
IndexB ==
  Response(200, "sha256:index-b", TRUE,
           <<PlatformManifest("linux", "amd64", "", "sha256:a1"),
             PlatformManifest("linux", "arm64", "", "sha256:b2")>>)

\* two entries, the second an attestation and not an image of linux/arm64
IndexNoArm ==
  Response(200, "sha256:index-c", TRUE,
           <<PlatformManifest("linux", "amd64", "", "sha256:a1"),
             PlatformManifest("unknown", "unknown", "", "sha256:x1")>>)

Responses == {NotFound, IndexA, IndexB, IndexNoArm}

\* the key of a request: the registry url, the image and the tag
RegistryKey(d) == <<d.hostname, d.image_name, d.tag_name>>

\* what the registry answers; nothing was pushed there: 404
Fetch(reg, d) ==
  IF RegistryKey(d) \in DOMAIN reg THEN reg[RegistryKey(d)] ELSE NotFound

\* get_tag_manifest without the test of the status code
get_tag_manifestNoStatusTest(response) ==
  IF "raised" \in DOMAIN response
  THEN [error |-> "RegistryConnectionError"]
  ELSE IF response.header = "" THEN [error |-> "RegistryError"]
  ELSE [manifests |-> IF response.has_manifests THEN response.manifests
                      ELSE <<>>]

\* get_tag_manifest: the platform manifests, or the exception raised
get_tag_manifest(response) ==
  IF "raised" \in DOMAIN response
  THEN [error |-> IF response.raised = "TimeoutException"
                  THEN "RegistryConnectionError"
                  ELSE IF response.raised = "ConnectError"
                  THEN "RegistryConnectionError"
                  ELSE "RegistryError"]
  ELSE IF response.status = 404 THEN [error |-> "ManifestNotFoundError"]
  ELSE IF response.status # 200 THEN [error |-> "RegistryError"]
  ELSE IF response.header = "" THEN [error |-> "RegistryError"]
  ELSE [manifests |-> IF response.has_manifests THEN response.manifests
                      ELSE <<>>]

get_manifests_for_tag(response) == get_tag_manifest(response)

\* the digest None of Python
NoDigest == "None"

\* get_manifest_ids_for_tag: no test of the status
get_manifest_ids_for_tag(response) ==
  IF response.has_manifests
  THEN [i \in 1..Len(response.manifests) |-> response.manifests[i].digest]
  ELSE <<IF response.header # "" THEN response.header ELSE NoDigest>>

(***************************************************************************)
(* One case, part 3: the checks of run_command_with_expectations.          *)
(***************************************************************************)
CacheHitSentinel == "mimosa-cache-hit: true"
CacheMissSentinel == "mimosa-cache-hit: false"
Sentinels == {CacheHitSentinel, CacheMissSentinel}

\* what subprocess.run returns for the tool: the exit code, and the
\* sentinels found in the text of stdout and of stderr
ToolResults ==
  [returncode : {0, 1}, stdout : SUBSET Sentinels, stderr : SUBSET Sentinels]

\* check=True, then the test of expected_output against result.stdout
ToolError(result, hit) ==
  LET expected_output == IF hit THEN CacheHitSentinel ELSE CacheMissSentinel
  IN IF result.returncode # 0 THEN "CalledProcessError"
     ELSE IF expected_output \notin result.stdout THEN "ValueError"
     ELSE "ok"

ExpectedPlatforms == {"linux/amd64", "linux/arm64"}

\* platform_str of assert_tags_have_platforms
PlatformStr(m) ==
  m.os \o "/" \o m.architecture
  \o (IF m.variant # "" THEN "/" \o m.variant ELSE "")

\* TagPlatformsError without the test of the expected platforms
TagPlatformsErrorCountOnly(tag, expected_platforms, reg) ==
  LET d == decompose_tag(tag)
  IN IF IsError(d) THEN d.error
     ELSE LET m == get_manifests_for_tag(Fetch(reg, d))
          IN IF IsError(m) THEN m.error
             ELSE IF Len(m.manifests) < 2 THEN "AssertionError"
             ELSE "ok"

\* the body of the loops of assert_tags_have_platforms for one tag
TagPlatformsError(tag, expected_platforms, reg) ==
  LET d == decompose_tag(tag)
  IN IF IsError(d) THEN d.error
     ELSE LET m == get_manifests_for_tag(Fetch(reg, d))
          IN IF IsError(m) THEN m.error
             ELSE IF Len(m.manifests) < 2 THEN "AssertionError"
             ELSE LET available_platforms ==
                        {PlatformStr(m.manifests[i]) :
                           i \in 1..Len(m.manifests)}
                  IN IF expected_platforms \subseteq available_platforms
                     THEN "ok" ELSE "AssertionError"

RECURSIVE FirstPlatformsError(_, _, _)
FirstPlatformsError(tags, expected_platforms, reg) ==
  IF tags = <<>> THEN "ok"
  ELSE LET e == TagPlatformsError(Head(tags), expected_platforms, reg)
       IN IF e # "ok" THEN e
          ELSE FirstPlatformsError(Tail(tags), expected_platforms, reg)

assert_tags_have_platforms(tagsByTarget, expected_platforms, reg) ==
  LET e == FirstPlatformsError(TagsInOrder(tagsByTarget), expected_platforms,
                               reg)
      at_least_one_checked == TagsInOrder(tagsByTarget) # <<>>
  IN IF e # "ok" THEN e
     ELSE IF ~at_least_one_checked THEN "AssertionError"
     ELSE "ok"

Elements(list) == {list[i] : i \in 1..Len(list)}

\* the body of the loop over zip(current_tags, expected list) for one pair
PairError(current_tag, expected_tag, reg) ==
  LET c == decompose_tag(current_tag)
      x == decompose_tag(expected_tag)
  IN IF IsError(c) THEN c.error
     ELSE IF IsError(x) THEN x.error
     ELSE LET now_manifests == get_manifest_ids_for_tag(Fetch(reg, c))
              expected_manifests == get_manifest_ids_for_tag(Fetch(reg, x))
          IN IF Elements(now_manifests) # Elements(expected_manifests)
             THEN "AssertionError"
             ELSE IF Len(now_manifests) = 0 THEN "AssertionError"
             ELSE "ok"

RECURSIVE FirstPairError(_, _, _)
FirstPairError(current_tags, expected_tags, reg) ==
  IF current_tags = <<>> \/ expected_tags = <<>> THEN "ok"
  ELSE LET e == PairError(Head(current_tags), Head(expected_tags), reg)
       IN IF e # "ok" THEN e
          ELSE FirstPairError(Tail(current_tags), Tail(expected_tags), reg)

\* the comparison made on a cache hit: the tags of target1 only
SameManifestsError(tagsByTarget, expected_tags, reg) ==
  LET current_tags == TagsOfTarget(tagsByTarget, "target1")
  IN IF current_tags = None THEN "KeyError"
     ELSE IF Len(current_tags[1]) # Len(expected_tags) THEN "AssertionError"
     ELSE FirstPairError(current_tags[1], expected_tags, reg)

\* the checks made against the registry, in the order of the code
ManifestsError(cmd, hit, expect, reg) ==
  IF ~hit
  THEN assert_tags_have_platforms(cmd.tagsByTarget, ExpectedPlatforms, reg)
  ELSE IF expect # None /\ Len(expect[1]) > 0
  THEN SameManifestsError(cmd.tagsByTarget, expect[1], reg)
  ELSE "ok"

OtherFileNames == {"included_file.txt", "excluded_file.txt"}

\* what `docker run --rm <tag> ls /added_files_<target>` returns: the exit
\* code and the file names in its output
Listings ==
  {[returncode |-> 1, files |-> {}]}
  \cup {[returncode |-> 0, files |-> s] : s \in SUBSET OtherFileNames}

\* ListingError without the test that excluded_file.txt is absent
ListingErrorIncludedOnly(listing) ==
  IF listing.returncode # 0 THEN "CalledProcessError"
  ELSE IF "included_file.txt" \notin listing.files THEN "ValueError"
  ELSE "ok"

\* the body of the last loops of run_command_with_expectations for one tag
ListingError(listing) ==
  IF listing.returncode # 0 THEN "CalledProcessError"
  ELSE IF "included_file.txt" \notin listing.files THEN "ValueError"
  ELSE IF "excluded_file.txt" \in listing.files THEN "ValueError"
  ELSE "ok"

RECURSIVE FirstListingError(_, _)
FirstListingError(tags, images) ==
  IF tags = <<>> THEN "ok"
  ELSE LET e == ListingError(images[Head(tags)])
       IN IF e # "ok" THEN e ELSE FirstListingError(Tail(tags), images)

ContentError(cmd, images) ==
  FirstListingError(TagsInOrder(cmd.tagsByTarget), images)

\* the keys under which the registry is asked for the tags of a command
KeysOf(cmd) ==
  {RegistryKey(decompose_tag(t)) : t \in Elements(TagsInOrder(cmd.tagsByTarget))}

\* the registry after the tool ran: where the tags of the command lead,
\* anything; elsewhere, what was there
AfterPush(reg, pushed) ==
  [k \in DOMAIN reg \cup DOMAIN pushed |->
     IF k \in DOMAIN pushed THEN pushed[k] ELSE reg[k]]

(***************************************************************************)
(* One case, part 4: run_test.  A call of run_command_with_expectations    *)
(* is one step, with one action for each way it ends: the tool, the        *)
(* registry and the images are outside the program, and the three checks   *)
(* read what they hold independently of one another.  After a call that    *)
(* raised, nothing reads the registry again: it is left as it was.  When   *)
(* the next command is made, the registry forgets the tags no comparison   *)
(* names later: it keeps those of the initial build and, after a command   *)
(* accepted as a cache hit, those of that command.                         *)
(***************************************************************************)
\* the list of file types with the included file first
FileTypesIncludedFirst == <<"included", "excluded">>

\* the list the first loop of run_test walks
FileTypes == <<"excluded", "included">>

\* file_type in file.location.name, for the names of create_other_files
NameContains(name, file_type) == name = file_type \o "_file.txt"

\* cache_hit_expected of the second rebuild taken for the first one's
CacheHitExpectedAlways(file_type) == TRUE

\* cache_hit_expected
CacheHitExpected(file_type) == file_type = "excluded"

\* the command the case made with the tags of a suffix
CommandWith(suffix) ==
  LET t == generate_target_tags(suffix, original_uuid)
  IN generate_docker_command(setup_config, dockerfiles, bakefiles,
                             t.first_target_tags, t.second_target_tags,
                             None, None, None, FreshCacheDir(2))

\* the command of the first build, with the tags "original"
InitialCommand ==
  LET t == generate_target_tags("original", original_uuid)
  IN generate_docker_command(setup_config, dockerfiles, bakefiles,
                             t.first_target_tags, t.second_target_tags,
                             None, None, None, FreshCacheDir(1))

\* the step a call of run_command_with_expectations belongs to
StepOf(p, i) ==
  CASE p = "run_initial" -> "initial"
    [] p = "run_file_type" -> FileTypes[i]
    [] p = "run_bakefile" -> "bakefile"
    [] p = "run_dockerfile" -> "dockerfile"

Running == case_pc \in {"run_initial", "run_file_type", "run_bakefile",
                       "run_dockerfile"}

\* run_test ends with the exception e
Raise(e) ==
  /\ case_pc' = "failed"
  /\ failure' = e
  /\ UNCHANGED <<setup_config, bakefiles, dockerfiles, other_files,
                 original_uuid, initial_1st_target_tags, tested_changes,
                 at_least_one_major_file_change, file_type_i, file_i, command, commands,
                 cache_hit, expect_same, mutations, rebuilds, registry, last_step,
                 last_result, last_listing>>

\* the lines of run_test up to the first call
Scaffold ==
  /\ case_pc = "scaffold"
  /\ LET b == create_bakefiles(setup_config)
         d == create_dockerfiles(setup_config)
         t == generate_target_tags("original", None)
         c == generate_docker_command(setup_config, d, b,
                                      t.first_target_tags,
                                      t.second_target_tags, None, None, None,
                                      FreshCacheDir(1))
     IN /\ bakefiles' = b
        /\ dockerfiles' = d
        /\ other_files' = create_other_files(setup_config)
        /\ original_uuid' = Some(t.uuid)
        /\ initial_1st_target_tags' = t.first_target_tags
        /\ IF IsError(c)
           THEN /\ case_pc' = "failed"
                /\ failure' = c.error
                /\ UNCHANGED <<command, commands, cache_hit, expect_same>>
           ELSE /\ case_pc' = "run_initial"
                /\ command' = c
                /\ commands' = Append(commands, c)
                /\ cache_hit' = FALSE
                /\ expect_same' = None
                /\ UNCHANGED failure
  /\ UNCHANGED <<setup_config, tested_changes,
                 at_least_one_major_file_change, file_type_i, file_i,
                 mutations, rebuilds, registry, last_step, last_result, last_listing>>
  /\ UNCHANGED <<enumVars, schedVars, fnVars, e2eVars, worker_exit>>

\* a file is written and the next command is made, with new tags
MakeCommand(file, suffix, hit, expect, next_pc) ==
  LET t == generate_target_tags(suffix, original_uuid)
      c == generate_docker_command(setup_config, dockerfiles, bakefiles,
                                   t.first_target_tags, t.second_target_tags,
                                   None, None, None,
                                   FreshCacheDir(Len(commands) + 1))
      kept == KeysOf(InitialCommand)
              \cup (IF cache_hit THEN KeysOf(command) ELSE {})
  IN /\ mutations' = Append(mutations, file)
     /\ UNCHANGED rebuilds
     /\ IF IsError(c)
        THEN /\ case_pc' = "failed"
             /\ failure' = c.error
             /\ UNCHANGED <<command, commands, cache_hit, expect_same, registry,
                            last_step, last_result, last_listing>>
        ELSE /\ case_pc' = next_pc
             /\ command' = c
             /\ commands' = Append(commands, c)
             /\ cache_hit' = hit
             /\ expect_same' = expect
             /\ registry' = [k \in DOMAIN registry \cap kept |-> registry[k]]
             /\ last_step' = "none"
             /\ last_result' = None
             /\ last_listing' = <<>>
             /\ UNCHANGED failure

\* what the tool may be seen to push: where the tags of the command lead,
\* any response
Pushes == [KeysOf(command) -> Responses]

\* what the images of the tags of the command may be seen to hold
Images == [Elements(TagsInOrder(command.tagsByTarget)) -> Listings]

\* the tool fails, or its stdout has not the expected sentinel
CommandFails ==
  /\ Running
  /\ \E e \in {ToolError(r, cache_hit) : r \in ToolResults} \ {"ok"} :
       Raise(e)
  /\ UNCHANGED <<enumVars, schedVars, fnVars, e2eVars, worker_exit>>

\* the tool passes and a check against the registry raises
ManifestsRejected ==
  /\ Running
  /\ \E e \in {ManifestsError(command, cache_hit, expect_same,
                               AfterPush(registry, p)) : p \in Pushes}
              \ {"ok"} :
       Raise(e)
  /\ UNCHANGED <<enumVars, schedVars, fnVars, e2eVars, worker_exit>>

\* the tool and the registry pass and the content of an image does not
ContentRejected ==
  /\ Running
  /\ \E e \in {ContentError(command, i) : i \in Images} \ {"ok"} :
       Raise(e)
  /\ UNCHANGED <<enumVars, schedVars, fnVars, e2eVars, worker_exit>>

\* the call returns
CommandAccepted ==
  /\ Running
  /\ LET results == {r \in ToolResults : ToolError(r, cache_hit) = "ok"}
         pushes == {p \in Pushes :
                      ManifestsError(command, cache_hit, expect_same,
                                     AfterPush(registry, p)) = "ok"}
         listings == {i \in Images : ContentError(command, i) = "ok"}
     IN \E result \in results, pushed \in pushes, images \in listings :
          /\ registry' = AfterPush(registry, pushed)
          /\ last_step' = StepOf(case_pc, file_type_i)
          /\ last_result' = Some(result)
          /\ last_listing' = images
          /\ rebuilds' = IF case_pc = "run_initial" THEN rebuilds
                          ELSE Append(rebuilds,
                                      [step |-> StepOf(case_pc, file_type_i),
                                       file |-> mutations[Len(mutations)]])
  /\ CASE case_pc = "run_initial" ->
            /\ case_pc' = "file_types"
            /\ file_type_i' = 1
            /\ tested_changes' = {}
            /\ UNCHANGED <<file_i, at_least_one_major_file_change>>
       [] case_pc = "run_file_type" ->
            /\ case_pc' = "file_types"
            /\ file_type_i' = file_type_i + 1
            /\ tested_changes' = tested_changes \cup {FileTypes[file_type_i]}
            /\ UNCHANGED <<file_i, at_least_one_major_file_change>>
       [] case_pc = "run_bakefile" ->
            /\ case_pc' = "bakefiles"
            /\ file_i' = file_i + 1
            /\ at_least_one_major_file_change' = TRUE
            /\ UNCHANGED <<file_type_i, tested_changes>>
       [] case_pc = "run_dockerfile" ->
            /\ case_pc' = "dockerfiles"
            /\ file_i' = file_i + 1
            /\ at_least_one_major_file_change' = TRUE
            /\ UNCHANGED <<file_type_i, tested_changes>>
  /\ UNCHANGED <<setup_config, bakefiles, dockerfiles, other_files,
                 original_uuid, initial_1st_target_tags, command, commands, cache_hit,
                 expect_same, mutations, failure>>
  /\ UNCHANGED <<enumVars, schedVars, fnVars, e2eVars, worker_exit>>

\* the loop over ["excluded", "included"] and, in it, over other_files
NextFileType ==
  /\ case_pc = "file_types"
  /\ file_type_i <= Len(FileTypes)
  /\ LET file_type == FileTypes[file_type_i]
         matching == SelectSeq(other_files,
                               LAMBDA f : NameContains(f.name, file_type))
     IN IF matching = <<>>
        THEN /\ file_type_i' = file_type_i + 1
             /\ UNCHANGED <<case_pc, command, commands, cache_hit, expect_same,
                            mutations, rebuilds, registry, last_step, last_result,
                            last_listing, failure>>
        ELSE /\ MakeCommand(matching[1], "modified-" \o file_type,
                            CacheHitExpected(file_type),
                            Some(initial_1st_target_tags), "run_file_type")
             /\ UNCHANGED file_type_i
  /\ UNCHANGED <<setup_config, bakefiles, dockerfiles, other_files,
                 original_uuid, initial_1st_target_tags, tested_changes,
                 at_least_one_major_file_change, file_i>>
  /\ UNCHANGED <<enumVars, schedVars, fnVars, e2eVars, worker_exit>>

\* the two asserts on tested_changes
FileTypesDone ==
  /\ case_pc = "file_types"
  /\ file_type_i > Len(FileTypes)
  /\ IF "included" \in tested_changes /\ "excluded" \in tested_changes
     THEN /\ case_pc' = "bakefiles"
          /\ file_i' = 1
          /\ at_least_one_major_file_change' = FALSE
          /\ UNCHANGED failure
     ELSE /\ case_pc' = "failed"
          /\ failure' = "AssertionError"
          /\ UNCHANGED <<file_i, at_least_one_major_file_change>>
  /\ UNCHANGED <<setup_config, bakefiles, dockerfiles, other_files,
                 original_uuid, initial_1st_target_tags, tested_changes,
                 file_type_i, command, commands, cache_hit, expect_same, mutations, rebuilds,
                 registry, last_step, last_result, last_listing>>
  /\ UNCHANGED <<enumVars, schedVars, fnVars, e2eVars, worker_exit>>

\* the loop over bakefiles
NextBakefile ==
  /\ case_pc = "bakefiles"
  /\ file_i <= Len(bakefiles)
  /\ MakeCommand(bakefiles[file_i], "modified-cache-miss-bakefile", FALSE,
                 None, "run_bakefile")
  /\ UNCHANGED <<setup_config, bakefiles, dockerfiles, other_files,
                 original_uuid, initial_1st_target_tags, tested_changes,
                 at_least_one_major_file_change, file_type_i, file_i>>
  /\ UNCHANGED <<enumVars, schedVars, fnVars, e2eVars, worker_exit>>

\* BakefilesDone leaving the loop after the first bakefile
BakefilesDoneAfterFirst ==
  /\ case_pc = "bakefiles"
  /\ file_i > 1
  /\ case_pc' = "dockerfiles"
  /\ file_i' = 1
  /\ UNCHANGED <<setup_config, bakefiles, dockerfiles, other_files,
                 original_uuid, initial_1st_target_tags, tested_changes,
                 at_least_one_major_file_change, file_type_i, command, commands,
                 cache_hit, expect_same, mutations, rebuilds, registry,
                 last_step, last_result, last_listing, failure>>
  /\ UNCHANGED <<enumVars, schedVars, fnVars, e2eVars, worker_exit>>

\* the loop over bakefiles is over
BakefilesDone ==
  /\ case_pc = "bakefiles"
  /\ file_i > Len(bakefiles)
  /\ case_pc' = "dockerfiles"
  /\ file_i' = 1
  /\ UNCHANGED <<setup_config, bakefiles, dockerfiles, other_files,
                 original_uuid, initial_1st_target_tags, tested_changes,
                 at_least_one_major_file_change, file_type_i, command, commands,
                 cache_hit, expect_same, mutations, rebuilds, registry, last_step,
                 last_result, last_listing, failure>>
  /\ UNCHANGED <<enumVars, schedVars, fnVars, e2eVars, worker_exit>>

\* the loop over dockerfiles
NextDockerfile ==
  /\ case_pc = "dockerfiles"
  /\ file_i <= Len(dockerfiles)
  /\ MakeCommand(dockerfiles[file_i], "modified-cache-miss-dockerfile", FALSE,
                 None, "run_dockerfile")
  /\ UNCHANGED <<setup_config, bakefiles, dockerfiles, other_files,
                 original_uuid, initial_1st_target_tags, tested_changes,
                 at_least_one_major_file_change, file_type_i, file_i>>
  /\ UNCHANGED <<enumVars, schedVars, fnVars, e2eVars, worker_exit>>

\* the last assert of run_test
DockerfilesDone ==
  /\ case_pc = "dockerfiles"
  /\ file_i > Len(dockerfiles)
  /\ IF at_least_one_major_file_change
     THEN case_pc' = "done" /\ UNCHANGED failure
     ELSE case_pc' = "failed" /\ failure' = "AssertionError"
  /\ UNCHANGED <<setup_config, bakefiles, dockerfiles, other_files,
                 original_uuid, initial_1st_target_tags, tested_changes,
                 at_least_one_major_file_change, file_type_i, file_i, command, commands,
                 cache_hit, expect_same, mutations, rebuilds, registry, last_step,
                 last_result, last_listing>>
  /\ UNCHANGED <<enumVars, schedVars, fnVars, e2eVars, worker_exit>>

\* the scaffold raises: a directory or a file cannot be written, a
\* template is missing
ScaffoldFails ==
  /\ case_pc = "scaffold"
  /\ \E e \in {"OSError", "TemplateNotFound"} : Raise(e)
  /\ UNCHANGED <<enumVars, schedVars, fnVars, e2eVars, worker_exit>>

\* run_test_worker whose process ends with the exit code 0 in any case
WorkerEndsZero ==
  /\ case_pc \in {"done", "failed"}
  /\ case_pc' = "exited"
  /\ worker_exit' = Some(0)
  /\ UNCHANGED <<setup_config, bakefiles, dockerfiles, other_files,
                 original_uuid, initial_1st_target_tags, tested_changes,
                 at_least_one_major_file_change, file_type_i, file_i, command,
                 commands, cache_hit, expect_same, mutations, rebuilds,
                 registry, last_step, last_result, last_listing, failure>>
  /\ UNCHANGED <<enumVars, schedVars, fnVars, e2eVars>>

\* the end of run_test_worker: run_test returned and the process ends with
\* the exit code 0, or it raised, the exception is raised again and the
\* process ends with the exit code 1
WorkerEnds ==
  /\ case_pc \in {"done", "failed"}
  /\ case_pc' = "exited"
  /\ worker_exit' = Some(IF case_pc = "failed" THEN 1 ELSE 0)
  /\ UNCHANGED <<setup_config, bakefiles, dockerfiles, other_files,
                 original_uuid, initial_1st_target_tags, tested_changes,
                 at_least_one_major_file_change, file_type_i, file_i, command,
                 commands, cache_hit, expect_same, mutations, rebuilds,
                 registry, last_step, last_result, last_listing, failure>>
  /\ UNCHANGED <<enumVars, schedVars, fnVars, e2eVars>>

\* no case is running: the state of the variables of run_test
NoCase ==
  /\ case_pc = "idle"
  /\ setup_config = None
  /\ bakefiles = <<>>
  /\ dockerfiles = <<>>
  /\ other_files = <<>>
  /\ original_uuid = None
  /\ initial_1st_target_tags = <<>>
  /\ tested_changes = {}
  /\ at_least_one_major_file_change = FALSE
  /\ file_type_i = 1
  /\ file_i = 1
  /\ command = None
  /\ commands = <<>>
  /\ cache_hit = FALSE
  /\ expect_same = None
  /\ mutations = <<>>
  /\ rebuilds = <<>>
  /\ registry = <<>>
  /\ last_step = "none"
  /\ last_result = None
  /\ last_listing = <<>>
  /\ failure = NoException
  /\ worker_exit = None

(***************************************************************************)
(* The environments the runs start from.                                   *)
(***************************************************************************)
\* no variable set: every field takes its default domain
UnsetEnv == [f \in {FieldNames[j] : j \in 1..Len(FieldNames)} |-> <<>>]

\* "the simple case" of the comment in main: every field set to one value
SimpleEnv ==
  [bakefile_type |-> <<"single">>, bakefile_location |-> <<"root">>,
   dockerfile_type |-> <<"single">>, dockerfile_location |-> <<"root">>,
   targets |-> <<"single">>, dockerignore |-> <<"single">>,
   context |-> <<"cwd">>]

RECURSIVE Repeated(_, _)
\* the value "w,w,...,w" with n copies of w
Repeated(w, n) ==
  IF n <= 1 THEN <<w>> ELSE <<w, ",">> \o Repeated(w, n - 1)

\* the simple case run n times over
RepeatEnv(n) == [SimpleEnv EXCEPT !.bakefile_type = Repeated("single", n)]

SpecialEnvs ==
  { \* white space and empty items around the values
    [SimpleEnv EXCEPT !.bakefile_type =
       <<" ", "single", " ", ",", ",", " ", "multiple">>],
    \* defaults for two fields, with tuples that are pruned
    [SimpleEnv EXCEPT !.dockerignore = <<>>, !.context = <<>>],
    \* nothing survives the pruning
    [SimpleEnv EXCEPT !.bakefile_type = <<"none">>,
                      !.targets = <<"multiple">>],
    \* only separators: an empty list
    [SimpleEnv EXCEPT !.targets = <<",", " ">>],
    \* values outside the enumerated sets
    [SimpleEnv EXCEPT !.bakefile_type = <<"bogus">>],
    [SimpleEnv EXCEPT !.bakefile_type = <<"none">>,
                      !.targets = <<"single", ",", "triple">>] }

Envs == {RepeatEnv(n) : n \in 1..MaxCases} \cup SpecialEnvs

InitMain(e) ==
  /\ env = e
  /\ loop_k = 0
  /\ test_configs = <<>>
  /\ pc = "enumerate"
  /\ pending_test_configs = <<>>
  /\ running_processes = <<>>
  /\ all_processes = <<>>
  /\ process_to_config = <<>>
  /\ exitcode = <<>>
  /\ total_tests_run = 0
  /\ failed_num = 0
  /\ poll_list = <<>>
  /\ poll_i = 1
  /\ cleanup_i = 1
  /\ pending_exc = NoException
  /\ failure_seen = FALSE
  /\ summary = None
  /\ exit_status = None

\* no function is called on its own
NoCall ==
  /\ fn_in = None
  /\ fn_out = None

\* run_test_case of the e2e runner is not running
NoRun ==
  /\ run_pc = "idle"
  /\ rewrite_files = <<>>
  /\ temp_dir = None
  /\ temp_dirs = {}
  /\ first_tag = None
  /\ last_tag_without_cache_hit = None
  /\ rewrite_i = 1
  /\ runs = <<>>
  /\ compared = <<>>
  /\ test_result = None

InitWith(e) == InitMain(e) /\ NoCase /\ NoCall /\ NoRun

vars == <<enumVars, schedVars, caseVars, fnVars, e2eVars>>

NextEnum == EnumStep \/ EnumDone

NextSched ==
  \/ LoopHead \/ StartProcess \/ StartDone
  \/ PollAlive \/ PollPassed \/ PollFailed \/ PollDone
  \/ ReadLog \/ ReadLogRaises
  \/ CleanupStep \/ WriteSummary \/ Finish
  \/ WorkerExit

\* main under an overridden environment
Init == \E e \in Envs : InitWith(e)
Next == NextEnum \/ NextSched
Spec == Init /\ [][Next]_vars

\* the enumeration of main with no variable set
InitDefault == InitWith(UnsetEnv)
SpecEnum == InitDefault /\ [][NextEnum]_vars

\* the cases the model runs: the kinds of bakefile and of dockerfile and
\* the targets vary (two targets with one bakefile and one dockerfile);
\* the locations, the dockerignore, the context and the cache source are
\* fixed
CaseConfigs ==
  {c \in [bakefile_type : {"single", "multiple", "none"},
          bakefile_location : {"root"},
          dockerfile_type : {"single", "multiple"},
          dockerfile_location : {"root"},
          targets : {"single", "multiple"},
          dockerignore : {"single"},
          context : {"cwd"},
          cache_source : {"disk"}] :
     /\ ~Pruned(c)
     /\ c.targets = "multiple" =>
          c.bakefile_type = "single" /\ c.dockerfile_type = "single"}

NextCase ==
  \/ Scaffold \/ ScaffoldFails
  \/ CommandFails \/ ManifestsRejected \/ ContentRejected \/ CommandAccepted
  \/ NextFileType \/ FileTypesDone
  \/ NextBakefile \/ BakefilesDone
  \/ NextDockerfile \/ DockerfilesDone
  \/ WorkerEnds

\* run_test is called with a configuration of the matrix
InitCase ==
  /\ InitMain(UnsetEnv)
  /\ NoRun
  /\ NoCall
  /\ setup_config \in CaseConfigs
  /\ case_pc = "scaffold"
  /\ bakefiles = <<>>
  /\ dockerfiles = <<>>
  /\ other_files = <<>>
  /\ original_uuid = None
  /\ initial_1st_target_tags = <<>>
  /\ tested_changes = {}
  /\ at_least_one_major_file_change = FALSE
  /\ file_type_i = 1
  /\ file_i = 1
  /\ command = None
  /\ commands = <<>>
  /\ cache_hit = FALSE
  /\ expect_same = None
  /\ mutations = <<>>
  /\ rebuilds = <<>>
  /\ registry = <<>>
  /\ last_step = "none"
  /\ last_result = None
  /\ last_listing = <<>>
  /\ failure = NoException
  /\ worker_exit = None

SpecCase == InitCase /\ [][NextCase]_vars

\* one call of run_command_with_expectations on its own: the call made for
\* the rebuild after the change of excluded_file.txt (cache_hit=True, the
\* tags of target1 of the initial build to compare with), the registry
\* answering anything for the tags of the initial build
InitCall ==
  /\ InitMain(UnsetEnv)
  /\ NoRun
  /\ NoCall
  /\ setup_config \in CaseConfigs
  /\ case_pc = "run_file_type"
  /\ bakefiles = create_bakefiles(setup_config)
  /\ dockerfiles = create_dockerfiles(setup_config)
  /\ other_files = create_other_files(setup_config)
  /\ original_uuid = Some(FreshUuid)
  /\ initial_1st_target_tags
       = generate_target_tags("original", None).first_target_tags
  /\ tested_changes = {}
  /\ at_least_one_major_file_change = FALSE
  /\ file_type_i = 1
  /\ file_i = 1
  /\ command = CommandWith("modified-excluded")
  /\ commands = <<InitialCommand, command>>
  /\ cache_hit = CacheHitExpected("excluded")
  /\ expect_same = Some(initial_1st_target_tags)
  /\ mutations = <<other_files[2]>>
  /\ rebuilds = <<>>
  /\ registry \in [KeysOf(InitialCommand) -> Responses]
  /\ last_step = "none"
  /\ last_result = None
  /\ last_listing = <<>>
  /\ failure = NoException
  /\ worker_exit = None

NextCall ==
  CommandFails \/ ManifestsRejected \/ ContentRejected \/ CommandAccepted

SpecCall == InitCall /\ [][NextCall]_vars

(***************************************************************************)
(* The data model the claims are stated against.                           *)
(***************************************************************************)
\* the Literal types of SetupConfig, for the fields main enumerates
FieldValues(f) ==
  CASE f = "bakefile_type" -> {"single", "multiple", "none"}
    [] f = "bakefile_location" -> {"root", "subdir"}
    [] f = "dockerfile_type" -> {"single", "multiple"}
    [] f = "dockerfile_location" -> {"root", "subdir"}
    [] f = "targets" -> {"single", "multiple"}
    [] f = "dockerignore" -> {"single", "multiple", "none"}
    [] f = "context" -> {"cwd", "subdir"}

FieldSet == {FieldNames[j] : j \in 1..Len(FieldNames)}

\* every tuple over the enumerated fields
AllTuples ==
  [bakefile_type : FieldValues("bakefile_type"),
   bakefile_location : FieldValues("bakefile_location"),
   dockerfile_type : FieldValues("dockerfile_type"),
   dockerfile_location : FieldValues("dockerfile_location"),
   targets : FieldValues("targets"),
   dockerignore : FieldValues("dockerignore"),
   context : FieldValues("context")]

\* the two pruning rules, as the claims word them
ViolatesPruningRule(c) ==
  \/ /\ c.bakefile_type = "none"
     /\ "multiple" \in {c.dockerfile_type, c.dockerignore, c.targets}
  \/ /\ c.bakefile_type \in {"single", "multiple"}
     /\ c.context = "subdir"

\* how many entries of test_configs carry the tuple c
Occurrences(c) == Cardinality({i \in 1..Len(test_configs) : test_configs[i].cfg = c})

ValidConfiguration(c) ==
  /\ DOMAIN c = FieldSet
  /\ \A f \in FieldSet : c[f] \in FieldValues(f)
  /\ ~ViolatesPruningRule(c)

(***************************************************************************)
(* Claims on the scheduler and the enumeration.                            *)
(***************************************************************************)
\* C1: once a polled worker has been seen with a non-zero exit code, no
\* step of main starts a process any more (all_processes never grows).
C1_NoStartAfterFailure ==
  [][failure_seen => all_processes' = all_processes]_vars

\* a run that ended by fail-fast with cases still pending
C1_Witness ==
  /\ pc = "exit"
  /\ failure_seen
  /\ pending_test_configs # <<>>
  /\ Len(all_processes) = max_workers

\* C2: when main has ended after a failure was seen, no process it started
\* is alive: each has an exit code.
C2_NoWorkerAliveAfterFailFast ==
  (pc = "exit" /\ failure_seen) =>
    \A p \in DOMAIN exitcode : exitcode[p] # None

\* a fail-fast run in which the cleanup had to terminate a worker
C2_Witness ==
  /\ pc = "exit"
  /\ failure_seen
  /\ \E p \in DOMAIN exitcode : exitcode[p] = Some(SIGTERM_EXIT)

\* C3: at most max_workers processes are in flight in every state.
C3_AtMostMaxWorkers == Len(running_processes) <= max_workers

\* all slots taken while cases are still pending
C3_Witness ==
  /\ Len(running_processes) = max_workers
  /\ pending_test_configs # <<>>

\* C4: the run ends with status 0 exactly when every enumerated case was
\* started and its worker ended with code 0; otherwise the status is 1.
C4_ExitZeroIffAllPassed ==
  pc = "exit" =>
    /\ exit_status \in {Some(0), Some(1)}
    /\ exit_status = Some(0) <=>
         /\ Len(all_processes) = Len(test_configs)
         /\ \A p \in DOMAIN exitcode : exitcode[p] = Some(0)

\* a matrix longer than the worker limit that passed as a whole
C4_Witness ==
  /\ pc = "exit"
  /\ exit_status = Some(0)
  /\ Len(test_configs) > max_workers

C6_EnumerationExact ==
  pc = "loop" =>
    /\ \A i \in 1..Len(test_configs) : test_configs[i].cfg \in AllTuples
    /\ \A c \in AllTuples :
         Occurrences(c) = IF ViolatesPruningRule(c) THEN 0 ELSE 1

\* the default matrix, with tuples pruned by each of the two rules
C6_Witness ==
  /\ pc = "loop"
  /\ env = UnsetEnv
  /\ Len(test_configs) < Cardinality(AllTuples)
  /\ Len(test_configs) > 0

\* C7 (as claimed): every configuration a worker was started with is a
\* valid Configuration.
C7_OnlyValidConfigsStarted ==
  \A p \in DOMAIN process_to_config :
    ValidConfiguration(process_to_config[p].cfg)

(***************************************************************************)
(* Claims on the checks of one case.  They are read in the state a call    *)
(* of run_command_with_expectations returned to: last_step names the step, *)
(* command is the command of the call, and the registry holds what the     *)
(* call was answered.                                                      *)
(***************************************************************************)
\* the manifest list the registry answers with for a tag
ManifestList(tag) == Fetch(registry, decompose_tag(tag))

\* the digests of the platform manifests of the tag
DigestSet(tag) ==
  LET r == ManifestList(tag)
  IN IF r.status = 200 /\ r.has_manifests
     THEN {r.manifests[i].digest : i \in 1..Len(r.manifests)}
     ELSE {}

HasPlatform(r, os, architecture) ==
  \E i \in 1..Len(r.manifests) :
    r.manifests[i].os = os /\ r.manifests[i].architecture = architecture

\* the manifest list of a tag has at least 2 platform manifests, linux/amd64
\* and linux/arm64 among them
BothPlatforms(tag) ==
  LET r == ManifestList(tag)
  IN /\ r.status = 200
     /\ r.has_manifests
     /\ Len(r.manifests) >= 2
     /\ HasPlatform(r, "linux", "amd64")
     /\ HasPlatform(r, "linux", "arm64")

EveryTagHasBothPlatforms(cmd) ==
  \A i \in 1..Len(cmd.tagsByTarget) :
    \A j \in 1..Len(cmd.tagsByTarget[i].tags) :
      BothPlatforms(cmd.tagsByTarget[i].tags[j])

\* C8: the initial build is accepted only if the tool ended with the
\* cache-miss sentinel in its output, the command has at least one tag, and
\* the manifest list of every tag of every target has at least 2 platform
\* manifests, linux/amd64 and linux/arm64 among them.
C8_InitialBuildAccepted ==
  last_step = "initial" =>
    /\ last_result[1].returncode = 0
    /\ CacheMissSentinel \in last_result[1].stdout
    /\ TagsInOrder(command.tagsByTarget) # <<>>
    /\ EveryTagHasBothPlatforms(command)

\* the initial build of a case with two targets was accepted
C8_Witness ==
  /\ last_step = "initial"
  /\ Len(command.tagsByTarget) = 2
  /\ Len(TagsInOrder(command.tagsByTarget)) = 4

\* C9: the rebuild after the change of excluded_file.txt is accepted only
\* if the tool reports a cache hit and, for every target of the rebuild and
\* every new tag of it, the digest set of the tag is the digest set of the
\* tag of the initial build of the same target at the same position.
C9_ExcludedRebuildSameDigests ==
  last_step = "excluded" =>
    /\ CacheHitSentinel \in last_result[1].stdout
    /\ \A i \in 1..Len(command.tagsByTarget) :
         \A j \in 1..Len(command.tagsByTarget[i].tags) :
           DigestSet(command.tagsByTarget[i].tags[j])
             = DigestSet(CommandWith("original").tagsByTarget[i].tags[j])

\* C10, as claimed: the rebuild after the change of included_file.txt is
\* accepted only if the tool reports a cache miss and the digest set of
\* every new tag is disjoint from, or a superset of, the digest set of the
\* tag of the rebuild before it (the cache hit) at the same place.
C10_IncludedRebuildNewDigests ==
  last_step = "included" =>
    /\ CacheMissSentinel \in last_result[1].stdout
    /\ \A i \in 1..Len(command.tagsByTarget) :
         \A j \in 1..Len(command.tagsByTarget[i].tags) :
           LET new == DigestSet(command.tagsByTarget[i].tags[j])
               baseline ==
                 DigestSet(CommandWith("modified-excluded")
                             .tagsByTarget[i].tags[j])
           IN new \cap baseline = {} \/ baseline \subseteq new

\* C10, amended: the rebuild after the change of included_file.txt is
\* accepted only if the tool ended with the cache-miss sentinel in its
\* stdout and the manifest list of every new tag has at least 2 platform
\* manifests, linux/amd64 and linux/arm64 among them; the digests of the
\* new tags are compared with those of no earlier tag.
C10_IncludedRebuildAccepted ==
  last_step = "included" =>
    /\ last_result[1].returncode = 0
    /\ CacheMissSentinel \in last_result[1].stdout
    /\ TagsInOrder(command.tagsByTarget) # <<>>
    /\ EveryTagHasBothPlatforms(command)

\* the rebuild was accepted with a tag that shares one digest, and not
\* all, with the tag of the cache hit before it
C10_Witness ==
  /\ last_step = "included"
  /\ \E i \in 1..Len(command.tagsByTarget) :
       \E j \in 1..Len(command.tagsByTarget[i].tags) :
         LET new == DigestSet(command.tagsByTarget[i].tags[j])
             baseline ==
               DigestSet(CommandWith("modified-excluded")
                           .tagsByTarget[i].tags[j])
         IN /\ new \cap baseline # {}
            /\ ~(baseline \subseteq new)

\* the files whose rebuild passed in a step of the case, in their order
FilesRebuilt(step) ==
  LET passed == SelectSeq(rebuilds, LAMBDA r : r.step = step)
  IN [i \in 1..Len(passed) |-> passed[i].file]

\* C11: a case that is done has had one rebuild pass for each of its
\* bakefiles and one for each of its dockerfiles, after a line was appended
\* to the file, and one such rebuild at least; and such a rebuild passes
\* only if the tool ended with the cache-miss sentinel in its stdout.
C11_DefinitionFilesRebuilt ==
  /\ case_pc = "done" =>
       /\ FilesRebuilt("bakefile") = bakefiles
       /\ FilesRebuilt("dockerfile") = dockerfiles
       /\ Len(bakefiles) + Len(dockerfiles) >= 1
       /\ at_least_one_major_file_change
  /\ last_step \in {"bakefile", "dockerfile"} =>
       /\ last_result[1].returncode = 0
       /\ CacheMissSentinel \in last_result[1].stdout
       /\ rebuilds[Len(rebuilds)].file = mutations[Len(mutations)]
       /\ mutations[Len(mutations)] \in Elements(bakefiles \o dockerfiles)

\* a case with two bakefiles and two dockerfiles is done
C11_Witness ==
  /\ case_pc = "done"
  /\ Len(bakefiles) = 2
  /\ Len(dockerfiles) = 2

\* the tags a command is run with
TagSet(cmd) == Elements(TagsInOrder(cmd.tagsByTarget))

\* C12: within a case no tag is used by two of the builds: the tag sets
\* of any two of the commands made are disjoint.
C12_TagsOfBuildsDisjoint ==
  \A i, j \in 1..Len(commands) :
    i # j => TagSet(commands[i]) \cap TagSet(commands[j]) = {}

(***************************************************************************)
(* Claims on what the cases of a run own.  mkdtemp and uuid4 return a      *)
(* value they returned to no other case: the directory of a case is named  *)
(* after its number in test_configs, its uuid after the number of its      *)
(* process.                                                                *)
(***************************************************************************)
\* tempfile.mkdtemp(prefix="mimosa_", suffix="_workdir")
WorkDir(n) == "mimosa_" \o ToString(n) \o "_workdir"

\* log_path of a run_test_worker whose log is the same file for all
LogPathShared(output_dir_str) == "test.log"

\* log_path of run_test_worker
LogPath(output_dir_str) == output_dir_str \o "-test.log"

\* str(uuid.uuid4()) in the worker process number p
WorkerUuid(p) == "uuid-" \o ToString(p)

\* the paths of the files of the scaffold of a case: the directory of the
\* case, then the path below it
CaseFiles(cfg, output_dir_str) ==
  {<<output_dir_str, f.dir, f.name>> :
     f \in Elements(create_bakefiles(cfg) \o create_dockerfiles(cfg)
                    \o create_dockerignores(cfg, create_dockerfiles(cfg))
                    \o create_other_files(cfg))}

TagSuffixes ==
  {"original", "modified-excluded", "modified-included",
   "modified-cache-miss-bakefile", "modified-cache-miss-dockerfile"}

\* the tags run_test generates with a uuid
CaseTags(uuid) ==
  UNION {LET t == generate_target_tags(s, Some(uuid))
         IN Elements(t.first_target_tags \o t.second_target_tags) :
           s \in TagSuffixes}

\* the cases of the processes p and q, started with the jobs a and b, have
\* different working directories and different log files, the log file of
\* the one is not in the directory of the other, no file of the one is in
\* the directory of the other, and they have no tag in common
ShareNothing(p, a, q, b) ==
  LET dp == WorkDir(a.outdir)
      dq == WorkDir(b.outdir)
  IN /\ dp # dq
     /\ LogPath(dp) # LogPath(dq)
     /\ LogPath(dp) # dq /\ LogPath(dq) # dp
     /\ \A f \in CaseFiles(a.cfg, dp) : f[1] # dq /\ f[1] # LogPath(dq)
     /\ \A f \in CaseFiles(b.cfg, dq) : f[1] # dp /\ f[1] # LogPath(dp)
     /\ CaseTags(WorkerUuid(p)) \cap CaseTags(WorkerUuid(q)) = {}

\* C13: a case shares no working directory, no log file, no file and no
\* tag with another case of the run: the process a step starts shares
\* nothing with any process started before it (and so with any that runs
\* at the same time).
C13_CasesShareNothing ==
  [][\A p \in DOMAIN process_to_config' \ DOMAIN process_to_config :
       \A q \in DOMAIN process_to_config :
         ShareNothing(p, process_to_config'[p], q, process_to_config[q])]_vars

\* two cases run at the same time
C13_Witness ==
  \E p, q \in DOMAIN process_to_config :
    /\ p # q
    /\ exitcode[p] = None
    /\ exitcode[q] = None
    /\ Len(running_processes) >= 2

(***************************************************************************)
(* Claims on the checks of run_command_with_expectations.                  *)
(***************************************************************************)
\* a call returned: the state it returned to
Accepted == last_step # "none"

\* the sentinel a call expects
ExpectedSentinel == IF cache_hit THEN CacheHitSentinel ELSE CacheMissSentinel

\* C14: a call of run_command_with_expectations returns only if one
\* sentinel, and the expected one, is in the stdout and stderr of the tool
\* taken together; an output with both sentinels is rejected.
C14_OneSentinelInOutput ==
  Accepted =>
    last_result[1].stdout \cup last_result[1].stderr = {ExpectedSentinel}

\* C15: a call of run_command_with_expectations, for the initial build or
\* for a rebuild, returns only if for every tag of every target of the
\* command the listing of the directory of marker files in the image shows
\* included_file.txt and does not show excluded_file.txt.
C15_ContentOfEveryImage ==
  Accepted =>
    \A i \in 1..Len(command.tagsByTarget) :
      \A j \in 1..Len(command.tagsByTarget[i].tags) :
        LET listing == last_listing[command.tagsByTarget[i].tags[j]]
        IN /\ listing.returncode = 0
           /\ "included_file.txt" \in listing.files
           /\ "excluded_file.txt" \notin listing.files

\* a rebuild with two targets and four tags was accepted
C15_Witness ==
  /\ last_step = "dockerfile"
  /\ Len(command.tagsByTarget) = 2
  /\ DOMAIN last_listing = TagSet(command)
  /\ Len(TagsInOrder(command.tagsByTarget)) = 4

\* C16: no error is recovered within a case.  Once run_test raised, no
\* later step of the case runs: no file is written, no command made or
\* run, the registry is asked for nothing; the only step left is the end
\* of the worker process, with an exit code that is not 0.
C16_NoStepAfterAnError ==
  [][failure # NoException =>
       /\ failure' = failure
       /\ mutations' = mutations
       /\ commands' = commands
       /\ rebuilds' = rebuilds
       /\ registry' = registry
       /\ last_step' = last_step
       /\ case_pc = "failed"
       /\ case_pc' = "exited"
       /\ worker_exit' # None
       /\ worker_exit'[1] # 0]_vars

\* a rebuild raised and the worker process ended with the exit code 1
C16_Witness ==
  /\ failure \in {"CalledProcessError", "ValueError", "AssertionError",
                  "ManifestNotFoundError"}
  /\ Len(commands) >= 2
  /\ case_pc = "exited"
  /\ worker_exit = Some(1)

\* C17: the comparison made on a cache hit never passes on a tag the
\* registry has not: the call returns only if the registry answered 200
\* for every new tag compared and for the tag it is compared with.
C17_ComparedTagsAreAnswered ==
  (Accepted /\ cache_hit /\ expect_same # None) =>
    \A j \in 1..Len(expect_same[1]) :
      /\ ManifestList(TagsOfTarget(command.tagsByTarget, "target1")[1][j])
           .status = 200
      /\ ManifestList(expect_same[1][j]).status = 200

(***************************************************************************)
(* get_tag_manifest on its own: one call on every outcome of the request.  *)
(***************************************************************************)
\* a timeout, a refused connection, and a connection lost while reading:
\* the last is an httpx.HTTPError that is neither of the first two
HttpxExceptions == {"TimeoutException", "ConnectError", "ReadError"}

Statuses == {200, 301, 401, 404, 500}
DigestHeaders == {"", "sha256:index-a"}

\* the JSON bodies: whether the key "manifests" is there, and its entries
Bodies ==
  {<<FALSE, <<>>>>, <<TRUE, <<>>>>,
   <<TRUE, <<PlatformManifest("linux", "amd64", "", "sha256:a1")>>>>,
   <<TRUE, IndexA.manifests>>, <<TRUE, IndexB.manifests>>,
   <<TRUE, IndexNoArm.manifests>>}

Outcomes ==
  {Response(s, h, b[1], b[2]) : s \in Statuses, h \in DigestHeaders, b \in Bodies}
    \cup {HttpxRaised(e) : e \in HttpxExceptions}

CallGetTagManifest ==
  /\ fn_out = None
  /\ fn_in[1] \in Outcomes
  /\ fn_out' = Some(get_tag_manifest(fn_in[1]))
  /\ UNCHANGED <<fn_in, e2eVars, enumVars, schedVars, caseVars>>

InitManifest ==
  /\ InitMain(UnsetEnv)
  /\ NoRun
  /\ NoCase
  /\ fn_in \in {Some(o) : o \in Outcomes}
  /\ fn_out = None

NextManifest == CallGetTagManifest
SpecManifest == InitManifest /\ [][NextManifest]_vars

\* C18: get_tag_manifest gives one result for every outcome of the request:
\* ManifestNotFoundError for a 404, RegistryError for any other status that
\* is not 200, RegistryConnectionError for a timeout or a connection that
\* could not be made, and a manifest list only for a 200 that carries the
\* Docker-Content-Digest header.
C18_OneResultPerOutcome ==
  (fn_out # None /\ fn_in[1] \in Outcomes) =>
    LET o == fn_in[1]
        r == fn_out[1]
    IN /\ IsError(r) \/ "manifests" \in DOMAIN r
       /\ ("raised" \notin DOMAIN o /\ o.status = 404)
            => (IsError(r) /\ r.error = "ManifestNotFoundError")
       /\ ("raised" \notin DOMAIN o /\ o.status \notin {200, 404})
            => (IsError(r) /\ r.error = "RegistryError")
       /\ ("raised" \in DOMAIN o /\ o.raised \in {"TimeoutException", "ConnectError"})
            => (IsError(r) /\ r.error = "RegistryConnectionError")
       /\ (~IsError(r))
            => ("raised" \notin DOMAIN o /\ o.status = 200 /\ o.header # "")

\* a 200 with the header gave the list
C18_Witness ==
  /\ fn_out # None
  /\ fn_in[1] = IndexA
  /\ fn_out[1] = [manifests |-> IndexA.manifests]

(***************************************************************************)
(* decompose_tag on its own: one call on every tag host:port/p1/.../pn:tag *)
(* of a few hosts, path segments and tag names.                            *)
(***************************************************************************)
MaxSegments == 3
TagHosts == {<<"localhost", ":", "5000">>, <<"registry.local", ":", "443">>}
PathSegments == {"uuid-1", "target1_1st", "img"}
TagNames == {"original", "latest"}

\* the paths of 1..MaxSegments segments
TagPaths == UNION {[1..n -> PathSegments] : n \in 1..MaxSegments}

\* p1/.../pn as tokens
RECURSIVE JoinPath(_)
JoinPath(path) ==
  IF Len(path) = 1 THEN <<path[1]>>
  ELSE <<Head(path), "/">> \o JoinPath(Tail(path))

TagInputs == [host : TagHosts, path : TagPaths, name : TagNames]

\* the tag string of an input, as tokens
TagString(t) == t.host \o <<"/">> \o JoinPath(t.path) \o <<":", t.name>>

CallDecomposeTag ==
  /\ fn_out = None
  /\ fn_in[1] \in TagInputs
  /\ fn_out' = Some(decompose_tag(TagString(fn_in[1])))
  /\ UNCHANGED <<fn_in, e2eVars, enumVars, schedVars, caseVars>>

InitTag ==
  /\ InitMain(UnsetEnv)
  /\ NoRun
  /\ NoCase
  /\ fn_in \in {Some(t) : t \in TagInputs}
  /\ fn_out = None

NextTag == CallDecomposeTag
SpecTag == InitTag /\ [][NextTag]_vars

\* C19: for a tag host:port/p1/.../pn:tag with n >= 1, decompose_tag returns
\* the host host:port with the scheme in front, the image path p1/.../pn,
\* and the tag name.
C19_HostPathAndTag ==
  (fn_out # None /\ fn_in[1] \in TagInputs) =>
    LET t == fn_in[1]
        r == fn_out[1]
    IN /\ ~IsError(r)
       /\ r.hostname = "http://" \o Concat(t.host)
       /\ r.image_name = Concat(JoinPath(t.path))
       /\ r.tag_name = t.name

\* the strings a tag starts with: what is left of a hostname once the
\* scheme in front of it is taken away is looked for among them
TagPrefixes(tag) == {Concat(SubSeq(tag, 1, k)) : k \in 0..Len(tag)}

\* the three parts joined again: host without the scheme, "/", image, ":", tag
Rejoined(r, tag) ==
  {host \o "/" \o r.image_name \o ":" \o r.tag_name :
     host \in {h \in TagPrefixes(tag) : "http://" \o h = r.hostname}}

\* C20: decomposing a tag host:port/path:tag and joining the three parts
\* again (the host without the scheme, "/", the image path, ":", the tag
\* name) gives the tag string back.
C20_RoundTrip ==
  (fn_out # None /\ fn_in[1] \in TagInputs) =>
    /\ ~IsError(fn_out[1])
    /\ Rejoined(fn_out[1], TagString(fn_in[1])) = {Concat(TagString(fn_in[1]))}

\* a tag with two path segments was decomposed
C20_Witness ==
  /\ fn_out # None
  /\ fn_in[1] \in TagInputs
  /\ fn_in[1].path = <<"uuid-1", "target1_1st">>
  /\ ~IsError(fn_out[1])
  /\ fn_out[1].image_name = "target1_1st"

(***************************************************************************)
(* The order of the steps of a case.                                       *)
(***************************************************************************)
\* the files a case that passes writes to, in the order the claim gives:
\* the excluded file, the included file, the bake files, the Docker files
ExpectedFiles ==
  SelectSeq(other_files, LAMBDA f : f.name = "excluded_file.txt")
    \o SelectSeq(other_files, LAMBDA f : f.name = "included_file.txt")
    \o bakefiles \o dockerfiles

\* and the steps of the rebuilds that follow them
ExpectedSteps ==
  <<"excluded", "included">>
    \o [i \in 1..Len(bakefiles) |-> "bakefile"]
    \o [i \in 1..Len(dockerfiles) |-> "dockerfile"]

IsPrefix(s, t) == Len(s) <= Len(t) /\ s = SubSeq(t, 1, Len(s))

StepsSoFarInOrder ==
  /\ IsPrefix(mutations, ExpectedFiles)
  /\ IsPrefix([i \in 1..Len(rebuilds) |-> rebuilds[i].step], ExpectedSteps)
  /\ IsPrefix([i \in 1..Len(rebuilds) |-> rebuilds[i].file], ExpectedFiles)
  /\ Len(rebuilds) <= Len(mutations)
  /\ Len(mutations) <= Len(rebuilds) + 1
  /\ case_pc = "scaffold" => (mutations = <<>> /\ commands = <<>>)
  /\ case_pc = "run_initial" => (mutations = <<>> /\ Len(commands) = 1)
  /\ case_pc = "done" => Len(rebuilds) = Len(ExpectedFiles)

\* a file is written to only when the call before it has returned
StepStartsAfterStepPassed ==
  (mutations' # mutations) =>
    /\ last_step # "none"
    /\ Len(rebuilds) = Len(mutations)
    /\ last_step = IF mutations = <<>> THEN "initial"
                   ELSE rebuilds[Len(rebuilds)].step

\* C21: within a case the steps run in the order scaffold, initial build,
\* rebuild for the excluded file, rebuild for the included file, one rebuild
\* for each bake file, one for each Docker file, done; a step starts only
\* after the step before it passed, and the excluded file is written to
\* before the included file.
C21_StepsInOrder == [] StepsSoFarInOrder /\ [][StepStartsAfterStepPassed]_vars

\* a case with two bake files and one Docker file is done
C21_Witness ==
  /\ case_pc = "done"
  /\ Len(bakefiles) = 2
  /\ [i \in 1..Len(rebuilds) |-> rebuilds[i].step]
       = <<"excluded", "included", "bakefile", "bakefile", "dockerfile">>

(***************************************************************************)
(* The order of the enumeration and the numbers of the cases.              *)
(***************************************************************************)
\* the first place of value v in the list the loop over field f walks
PlaceIn(e, f, v) ==
  LET d == Domain(e, f)
  IN CHOOSE i \in 1..Len(d) : d[i] = v /\ \A h \in 1..(i - 1) : d[h] # v

\* a is not after b when the fields are compared in the order of
\* FieldNames, from field j on, each by its place in its list
RECURSIVE NotAfterFrom(_, _, _, _)
NotAfterFrom(e, a, b, j) ==
  IF j > Len(FieldNames) THEN TRUE
  ELSE LET f == FieldNames[j]
           pa == PlaceIn(e, f, a[f])
           pb == PlaceIn(e, f, b[f])
       IN IF pa < pb THEN TRUE
          ELSE IF pa > pb THEN FALSE
          ELSE NotAfterFrom(e, a, b, j + 1)

AllConfigs ==
  [bakefile_type : {"single", "multiple", "none"},
   bakefile_location : {"root", "subdir"},
   dockerfile_type : {"single", "multiple"},
   dockerfile_location : {"root", "subdir"},
   targets : {"single", "multiple"},
   dockerignore : {"single", "multiple", "none"},
   context : {"cwd", "subdir"},
   cache_source : {"disk", "memory"}]

\* the directory of the cache of a case, when the caller names one
CaseCacheDir == "mimosa_case_cache"

\* what `mimosa cache --export-to` wrote for a directory
ExportOf(cache_dir) == "export of " \o cache_dir

CommandInputs ==
  {[cfg |-> c, dfiles |-> d, cache_given |-> g] :
     c \in AllConfigs, d \in {"scaffold", "none"}, g \in BOOLEAN}

\* the Docker files, the cache directory and the cache source of an input
DockerfilesOf(i) ==
  IF i.dfiles = "scaffold" THEN create_dockerfiles(i.cfg) ELSE <<>>

CacheDirOf(i) == IF i.cache_given THEN Some(CaseCacheDir) ELSE None
CacheSourceOf(i) == IF i.cache_given THEN Some(i.cfg.cache_source) ELSE None

\* the call is the one run_test makes for the configuration
AsRunTestCalls(i) == i.dfiles = "scaffold" /\ ~i.cache_given

CallGenerateDockerCommand ==
  /\ fn_out = None
  /\ fn_in[1] \in CommandInputs
  /\ LET i == fn_in[1]
         t == generate_target_tags("original", None)
         final_cache_dir == IF i.cache_given THEN CaseCacheDir ELSE FreshCacheDir(1)
     IN \E export \in {None, Some(ExportOf(final_cache_dir))} :
          fn_out' = Some(generate_docker_command(
                           i.cfg, DockerfilesOf(i), create_bakefiles(i.cfg),
                           t.first_target_tags, t.second_target_tags,
                           CacheDirOf(i), CacheSourceOf(i), export,
                           FreshCacheDir(1)))
  /\ UNCHANGED <<fn_in, e2eVars, enumVars, schedVars, caseVars>>

InitCommand ==
  /\ InitMain(UnsetEnv)
  /\ NoRun
  /\ NoCase
  /\ fn_in \in {Some(i) : i \in CommandInputs}
  /\ fn_out = None

NextCommand == CallGenerateDockerCommand
SpecCommand == InitCommand /\ [][NextCommand]_vars

\* a command was returned for the input
Returned == fn_out # None /\ fn_in[1] \in CommandInputs /\ ~IsError(fn_out[1])

\* C23: the command of every configuration is the tool's pass-through
\* subcommand around the build engine: the mimosa executable, remember, --,
\* docker, buildx, then build exactly when bakefile_type is none, and bake
\* otherwise.
C23_ToolWrapsTheEngine ==
  Returned =>
    LET words == fn_out[1].command
    IN /\ Len(words) >= 6
       /\ SubSeq(words, 1, 5)
            = <<"/usr/local/bin/mimosa", "remember", "--", "docker", "buildx">>
       /\ words[6] \in {"build", "bake"}
       /\ words[6] = "build" <=> fn_in[1].cfg.bakefile_type = "none"

\* a command of each kind was returned
C23_Witness ==
  /\ Returned
  /\ fn_in[1].cfg.bakefile_type = "multiple"
  /\ fn_out[1].command[6] = "bake"

\* the words of a command hold the flag -f
HasFileArg(words) == \E k \in 1..Len(words) : words[k] = "-f"

\* the file the build engine reads when no -f is given: Dockerfile at the
\* root of the build context
DefaultDockerfile(cfg) == File(ParentDir(cfg.context), "Dockerfile")

\* C24: with bakefile_type none, the command has a -f argument only if the
\* Docker file is not the default one of the chosen build context, and has
\* none otherwise; its last word, the build context, is "." for the context
\* cwd and "subdir" for the context subdir.
C24_FileArgOnlyOffDefault ==
  (Returned /\ fn_in[1].cfg.bakefile_type = "none") =>
    LET cfg == fn_in[1].cfg
        words == fn_out[1].command
    IN /\ HasFileArg(words) <=> DockerfilesOf(fn_in[1])[1] # DefaultDockerfile(cfg)
       /\ words[Len(words)] = IF cfg.context = "cwd" THEN "." ELSE "subdir"

C26_BakeFilesNamedInSubdir ==
  (Returned /\ fn_in[1].cfg.bakefile_type # "none") =>
    LET cfg == fn_in[1].cfg
        files == create_bakefiles(cfg)
        words == fn_out[1].command
        rest == SubSeq(words, 8, Len(words))
    IN IF cfg.bakefile_location = "subdir"
       THEN /\ Len(rest) = 2 * Len(files)
            /\ \A k \in 1..Len(files) :
                 /\ rest[2 * k - 1] = "-f"
                 /\ rest[2 * k] = "subdir/" \o files[k].name
       ELSE ~HasFileArg(words)

\* the command of two bake files in the subdirectory
C26_Witness ==
  /\ Returned
  /\ fn_in[1].cfg.bakefile_type = "multiple"
  /\ fn_in[1].cfg.bakefile_location = "subdir"
  /\ SubSeq(fn_out[1].command, 8, 11)
       = <<"-f", "subdir/docker-bake.hcl", "-f", "subdir/docker-bake.override.hcl">>

\* the tags of a comma-joined list
TagsExported(value, tags) == value = CommaJoin(tags)

\* C27: in bake mode TARGET1_TAGS and TARGET2_TAGS are the comma-joined
\* first and second target tag lists, and the tags exported in each are in
\* tagsByTarget under target1 and target2.
C27_ExportedTagsAreReturned ==
  (Returned /\ fn_in[1].cfg.bakefile_type # "none") =>
    LET t == generate_target_tags("original", None)
        made == fn_out[1]
    IN /\ TagsExported(made.env["TARGET1_TAGS"], t.first_target_tags)
       /\ TagsExported(made.env["TARGET2_TAGS"], t.second_target_tags)
       /\ TagsOfTarget(made.tagsByTarget, "target1") = Some(t.first_target_tags)
       /\ TagsOfTarget(made.tagsByTarget, "target2") = Some(t.second_target_tags)

\* C28: the command run_test makes for a configuration with cache_source
\* memory has the export of the cache directory in MIMOSA_CACHE; with
\* cache_source disk MIMOSA_CACHE is not set by the call and
\* MIMOSA_CACHE_DIR names the cache directory.
C28_MemoryCacheInjected ==
  (Returned /\ AsRunTestCalls(fn_in[1])) =>
    LET made == fn_out[1].env
    IN /\ "MIMOSA_CACHE_DIR" \in DOMAIN made
       /\ IF fn_in[1].cfg.cache_source = "memory"
          THEN /\ "MIMOSA_CACHE" \in DOMAIN made
               /\ made["MIMOSA_CACHE"] = ExportOf(made["MIMOSA_CACHE_DIR"])
          ELSE "MIMOSA_CACHE" \notin DOMAIN made

(***************************************************************************)
(* The scaffold on its own: the four functions of test_creator.py called   *)
(* as run_test calls them, for every configuration.                        *)
(***************************************************************************)
\* the directories the mkdir calls of the scaffold make: output_dir is "."
ScaffoldDirs(cfg) ==
  {"."}
    \cup (IF cfg.bakefile_type = "none" THEN {}
          ELSE {ParentDir(cfg.bakefile_location)})
    \cup {ParentDir(cfg.dockerfile_location)}
    \cup (IF cfg.dockerfile_type # "multiple" /\ cfg.context = "subdir"
          THEN {"subdir"} ELSE {})
    \cup {ParentDir(cfg.context)}

\* the tree run_test has after its first lines
ScaffoldOf(cfg) ==
  [dirs |-> ScaffoldDirs(cfg),
   bakefiles |-> create_bakefiles(cfg),
   dockerfiles |-> create_dockerfiles(cfg),
   dockerignores |-> create_dockerignores(cfg, create_dockerfiles(cfg)),
   other_files |-> create_other_files(cfg)]

CallScaffold ==
  /\ fn_out = None
  /\ fn_in[1] \in AllConfigs
  /\ fn_out' = Some(ScaffoldOf(fn_in[1]))
  /\ UNCHANGED <<fn_in, e2eVars, enumVars, schedVars, caseVars>>

InitScaffold ==
  /\ InitMain(UnsetEnv)
  /\ NoRun
  /\ NoCase
  /\ fn_in \in {Some(c) : c \in AllConfigs}
  /\ fn_out = None

NextScaffold == CallScaffold
SpecScaffold == InitScaffold /\ [][NextScaffold]_vars

Scaffolded == fn_out # None /\ fn_in[1] \in AllConfigs

\* C29: the ignore files written match the field dockerignore: none writes
\* no ignore file, single writes one .dockerignore in the build context,
\* multiple writes <file>.dockerignore for each Docker file and a decoy
\* .dockerignore at the root.
C29_IgnoreFilesMatchVariant ==
  Scaffolded =>
    LET cfg == fn_in[1]
        written == fn_out[1].dockerignores
        dfiles == fn_out[1].dockerfiles
    IN CASE cfg.dockerignore = "none" -> written = <<>>
         [] cfg.dockerignore = "single" ->
              written = <<File(ParentDir(cfg.context), ".dockerignore")>>
         [] cfg.dockerignore = "multiple" ->
              /\ Len(written) = Len(dfiles) + 1
              /\ \A k \in 1..Len(dfiles) :
                   File(dfiles[k].dir, dfiles[k].name \o ".dockerignore")
                     \in Elements(written)
              /\ File(".", ".dockerignore") \in Elements(written)

\* C30: after the scaffold the directory subdir exists under the output
\* directory exactly when context is subdir or bakefile_location is subdir
\* or dockerfile_location is subdir.
C30_SubdirIffSomeLocationSubdir ==
  Scaffolded =>
    LET cfg == fn_in[1]
    IN "subdir" \in fn_out[1].dirs
         <=> \/ cfg.context = "subdir"
             \/ cfg.bakefile_location = "subdir"
             \/ cfg.dockerfile_location = "subdir"

(***************************************************************************)
(* The worker's construction of the configuration.                         *)
(***************************************************************************)
\* the fields of SetupConfig and the values of their Literal types
SetupConfigFields == FieldSet \cup {"cache_source"}

SetupConfigValues(f) ==
  IF f = "cache_source" THEN {"disk", "memory"} ELSE FieldValues(f)

\* SetupConfig(**setup_config_dict): every field is required and must hold
\* a value of its Literal; keys that are no field are ignored
SetupConfig(dict) ==
  IF /\ SetupConfigFields \subseteq DOMAIN dict
     /\ \A f \in SetupConfigFields : dict[f] \in SetupConfigValues(f)
  THEN [f \in SetupConfigFields |-> dict[f]]
  ELSE [error |-> "ValidationError"]

\* C31: every configuration main hands to a worker carries a value for each
\* field of SetupConfig, cache_source too, whenever its values are those of
\* the enumerated sets: SetupConfig(**setup_config_dict) succeeds.
C31_WorkerConfigConstructs ==
  \A p \in DOMAIN process_to_config :
    LET dict == process_to_config[p].cfg
    IN (\A f \in DOMAIN dict : dict[f] \in SetupConfigValues(f))
         => ~IsError(SetupConfig(dict))

\* C32: every build invocation of a case, the initial build and each
\* rebuild, points the tool at the same cache directory: MIMOSA_CACHE_DIR
\* has one value in the environments of all the commands of the case.
C32_OneCacheDirPerCase ==
  \A i \in 1..Len(commands), j \in 1..Len(commands) :
    commands[i].env["MIMOSA_CACHE_DIR"] = commands[j].env["MIMOSA_CACHE_DIR"]

(***************************************************************************)
(* The e2e runner: MimosaTestRunner.run_test_case of                       *)
(* tests-e2e/utils/test_runner.py.  One case is the first build of a       *)
(* scaffolded directory and one rebuild after each rewrite file of the     *)
(* test case.  The tool, the image and the registry are outside of the     *)
(* program: what they answer is an input of every step.  The output of the *)
(* tool is the sequence of its lines.                                      *)
(***************************************************************************)
MaxRewrites == 3

HitSentinel == "mimosa-cache-hit: true"
MissSentinel == "mimosa-cache-hit: false"

\* "sentinel in result.stdout"
InOutput(sentinel, stdout) == \E i \in 1..Len(stdout) : stdout[i] = sentinel

\* the slip of reading the miss as the absence of the hit
run_mimosa_rememberMissIsNoHit(result) ==
  IF result.returncode # 0
    THEN [raised |-> "Exception", message |-> "Failed to run mimosa remember"]
    ELSE [cache_hit |-> InOutput(HitSentinel, result.stdout),
          cache_miss |-> ~InOutput(HitSentinel, result.stdout),
          output |-> result.stdout]

\* run_mimosa_remember, from the finished process of the tool on
run_mimosa_remember(result) ==
  IF result.returncode # 0
    THEN [raised |-> "Exception", message |-> "Failed to run mimosa remember"]
    ELSE [cache_hit |-> InOutput(HitSentinel, result.stdout),
          cache_miss |-> InOutput(MissSentinel, result.stdout),
          output |-> result.stdout]

\* what the process of the tool may end with
Stdouts ==
  { <<"#1 building">>, <<HitSentinel>>, <<MissSentinel>>,
    <<HitSentinel, MissSentinel>>, <<"#1 building", MissSentinel>> }
RememberResults ==
  {[returncode |-> 0, stdout |-> o] : o \in Stdouts}
    \cup {[returncode |-> 1, stdout |-> <<"#1 building">>]}

\* registry_manager.builder_name, read by build_docker_command, is not an
\* attribute DockerRegistryManager defines: reading it gives the name of the
\* builder where it was set on the object, and raises AttributeError where
\* it was not.  A build is build_docker_command and run_mimosa_remember.
BuildOutcomes ==
  {[raised |-> "AttributeError", message |-> "builder_name"]}
    \cup {run_mimosa_remember(r) : r \in RememberResults}

Raised(outcome) == "raised" \in DOMAIN outcome

\* registry_manager.generate_unique_tag: registry_url/base_name:unique_id,
\* as the list of its parts between "/"; the n-th uuid4 is ToString(n)
generate_unique_tag(base_name, n) ==
  <<"localhost:5000", base_name \o ":" \o ToString(n)>>

\* tag.split("/")[-1]
LastPart(tag) == tag[Len(tag)]

\* registry_manager.get_manifest_digests(name): the digests the registry
\* lists for the name, or AttributeError where the manager has no such
\* method
DigestLists ==
  { <<"sha256:a">>, <<"sha256:a", "sha256:b">>, <<"sha256:b", "sha256:a">>,
    <<"sha256:a", "sha256:c">> }
DigestAnswers ==
  {[returned |-> l] : l \in DigestLists}
    \cup {[raised |-> "AttributeError", message |-> "get_manifest_digests"]}

\* _assert_image_manifests, given what get_manifest_digests answered for the
\* two tags: None when every assertion passed
_assert_image_manifests(first_answer, nth_answer) ==
  IF Raised(first_answer) THEN Some(first_answer)
  ELSE IF Raised(nth_answer) THEN Some(nth_answer)
  ELSE LET first_manifests == first_answer.returned
           nth_manifests == nth_answer.returned
       IN IF ~(Len(first_manifests) >= 2)
            THEN Some([raised |-> "AssertionError", message |-> "Expected at least 2 manifests"])
          ELSE IF ~(Len(nth_manifests) >= 2)
            THEN Some([raised |-> "AssertionError", message |-> "Expected at least 2 manifests"])
          ELSE IF ~(Elements(first_manifests) = Elements(nth_manifests))
            THEN Some([raised |-> "AssertionError", message |-> "Expected but got"])
          ELSE None

\* _assert_image_contents, given how the run of the image ended
ContentsResults == {"0", "1", "TimeoutExpired"}
_assert_image_contents(result) ==
  IF result = "TimeoutExpired"
    THEN Some([raised |-> "TimeoutExpired", message |-> "docker run"])
  ELSE IF result = "0" THEN None
  ELSE Some([raised |-> "Exception", message |-> "Expected but got"])

\* TestScaffolder.cleanup: the directories left on the file system
cleanup(dir, dirs) ==
  IF dir # None /\ dir[1] \in dirs THEN dirs \ {dir[1]} ELSE dirs

\* a way out of run_test_case that skips the cleanup when an exception
\* propagates
LeaveCleanupOnReturn(outcome) ==
  /\ test_result' = outcome
  /\ run_pc' = IF Raised(outcome) THEN "raised" ELSE "returned"
  /\ temp_dirs' = IF Raised(outcome) THEN temp_dirs
                  ELSE cleanup(temp_dir, temp_dirs)

\* every way out of the try block of run_test_case: finally, cleanup
Leave(outcome) ==
  /\ test_result' = outcome
  /\ run_pc' = IF Raised(outcome) THEN "raised" ELSE "returned"
  /\ temp_dirs' = cleanup(temp_dir, temp_dirs)

TestCaseResult(error) == [test_name |-> "case", error |-> error]

\* one build of the case, as the history keeps it
RunOf(tag, expected, outcome) ==
  [tag |-> tag, expected |-> expected, cache_hit |-> outcome.cache_hit,
   cache_miss |-> outcome.cache_miss, contents |-> None]

\* scaffolder.create_test_environment(), line 140, before the try block:
\* mkdtemp, the directories and the files of the case
CreateTestEnvironment ==
  /\ run_pc = "create"
  /\ \E made \in {"nothing", "mkdtemp", "everything"} :
       /\ temp_dir' = IF made = "nothing" THEN None ELSE Some("mimosa_test_1")
       /\ temp_dirs' = IF made = "nothing" THEN {} ELSE {"mimosa_test_1"}
       /\ run_pc' = IF made = "everything" THEN "first_build" ELSE "raised"
       /\ test_result' = IF made = "everything" THEN None
                         ELSE [raised |-> "OSError", message |-> "scaffold"]
  /\ UNCHANGED <<rewrite_files, first_tag, last_tag_without_cache_hit,
                 rewrite_i, runs, compared>>
  /\ UNCHANGED <<enumVars, schedVars, caseVars, fnVars>>

\* lines 145-155: the first build and the test of its verdict
FirstBuild ==
  /\ run_pc = "first_build"
  /\ first_tag' = Some(generate_unique_tag("test-case", Len(runs) + 1))
  /\ \E first_run \in BuildOutcomes :
       IF Raised(first_run)
         THEN Leave(first_run) /\ UNCHANGED runs
         ELSE /\ runs' = Append(runs, RunOf(first_tag'[1], None, first_run))
              /\ IF ~first_run.cache_miss
                   THEN Leave(TestCaseResult(Some("Expected cache miss on first run")))
                   ELSE /\ run_pc' = "contents"
                        /\ UNCHANGED <<temp_dirs, test_result>>
  /\ UNCHANGED <<rewrite_files, temp_dir, last_tag_without_cache_hit,
                 rewrite_i, compared>>
  /\ UNCHANGED <<enumVars, schedVars, caseVars, fnVars>>

\* lines 157-161: the content of the first image, then the rewrite files
AssertImageContents ==
  /\ run_pc = "contents"
  /\ \E result \in ContentsResults :
       /\ runs' = [runs EXCEPT ![1].contents = Some(result)]
       /\ IF _assert_image_contents(result) # None
            THEN /\ Leave(_assert_image_contents(result)[1])
                 /\ UNCHANGED <<last_tag_without_cache_hit, rewrite_i>>
            ELSE /\ last_tag_without_cache_hit' = first_tag
                 /\ rewrite_i' = 1
                 /\ run_pc' = "rewrite"
                 /\ UNCHANGED <<temp_dirs, test_result>>
  /\ UNCHANGED <<rewrite_files, temp_dir, first_tag, compared>>
  /\ UNCHANGED <<enumVars, schedVars, caseVars, fnVars>>

\* the slip of moving the baseline on every rebuild
NextBaselineAlways(actual_cache_hit, nth_tag) == Some(nth_tag)

\* lines 175-178: last_tag_without_cache_hit after a rebuild
NextBaseline(actual_cache_hit, nth_tag) ==
  IF ~actual_cache_hit THEN Some(nth_tag) ELSE last_tag_without_cache_hit

\* lines 163-181: one pass of the loop over rewrite_files
Rebuild ==
  /\ run_pc = "rewrite"
  /\ rewrite_i <= Len(rewrite_files)
  /\ LET rewrite_file == rewrite_files[rewrite_i]
         nth_tag == generate_unique_tag("test-case", Len(runs) + 1)
         expected_cache_hit == rewrite_file.expected_cache_hit
     IN \E written \in BOOLEAN, nth_run \in BuildOutcomes :
          IF ~written
            THEN /\ Leave([raised |-> "OSError", message |-> rewrite_file.path])
                 /\ UNCHANGED <<runs, compared, last_tag_without_cache_hit, rewrite_i>>
          ELSE IF Raised(nth_run)
            THEN /\ Leave(nth_run)
                 /\ UNCHANGED <<runs, compared, last_tag_without_cache_hit, rewrite_i>>
          ELSE
            /\ runs' = Append(runs, RunOf(nth_tag, Some(expected_cache_hit), nth_run))
            /\ IF nth_run.cache_hit # expected_cache_hit
                 THEN /\ Leave([raised |-> "AssertionError", message |-> "Cache hit error"])
                      /\ UNCHANGED <<compared, last_tag_without_cache_hit, rewrite_i>>
                 ELSE
                   /\ last_tag_without_cache_hit' = NextBaseline(nth_run.cache_hit, nth_tag)
                   /\ IF ~nth_run.cache_hit
                        THEN /\ rewrite_i' = rewrite_i + 1
                             /\ UNCHANGED <<compared, run_pc, temp_dirs, test_result>>
                        ELSE \E first_manifests \in DigestAnswers, nth_manifests \in DigestAnswers :
                               /\ compared' = Append(compared,
                                    [first_tag |-> last_tag_without_cache_hit'[1],
                                     nth_tag |-> nth_tag,
                                     first_name |-> LastPart(last_tag_without_cache_hit'[1]),
                                     nth_name |-> LastPart(nth_tag),
                                     first_manifests |-> first_manifests,
                                     nth_manifests |-> nth_manifests])
                               /\ IF _assert_image_manifests(first_manifests, nth_manifests) # None
                                    THEN /\ Leave(_assert_image_manifests(first_manifests, nth_manifests)[1])
                                         /\ UNCHANGED rewrite_i
                                    ELSE /\ rewrite_i' = rewrite_i + 1
                                         /\ UNCHANGED <<run_pc, temp_dirs, test_result>>
  /\ UNCHANGED <<rewrite_files, temp_dir, first_tag>>
  /\ UNCHANGED <<enumVars, schedVars, caseVars, fnVars>>

\* lines 183-186: the loop is over, the case passed
ReturnPassed ==
  /\ run_pc = "rewrite"
  /\ rewrite_i > Len(rewrite_files)
  /\ Leave(TestCaseResult(None))
  /\ UNCHANGED <<rewrite_files, temp_dir, first_tag,
                 last_tag_without_cache_hit, rewrite_i, runs, compared>>
  /\ UNCHANGED <<enumVars, schedVars, caseVars, fnVars>>

\* the rewrite files a test case may have: up to MaxRewrites files, each
\* with the verdict its test case expects
RewriteFileLists ==
  UNION {[1..n -> BOOLEAN] : n \in 0..MaxRewrites}

\* run_test_case is called for a test case
InitE2E ==
  /\ InitMain(UnsetEnv)
  /\ NoCase
  /\ NoCall
  /\ run_pc = "create"
  /\ rewrite_files \in
       {[i \in 1..Len(l) |-> [path |-> "file" \o ToString(i), expected_cache_hit |-> l[i]]] :
          l \in RewriteFileLists}
  /\ temp_dir = None
  /\ temp_dirs = {}
  /\ first_tag = None
  /\ last_tag_without_cache_hit = None
  /\ rewrite_i = 1
  /\ runs = <<>>
  /\ compared = <<>>
  /\ test_result = None

NextE2E ==
  \/ CreateTestEnvironment
  \/ FirstBuild
  \/ AssertImageContents
  \/ Rebuild
  \/ ReturnPassed

SpecE2E == InitE2E /\ [][NextE2E]_vars

\* the builds before the k-th that did not report a cache hit
NoHitBefore(k) == {j \in 1..(k - 1) : ~runs[j].cache_hit}

\* the tag of the most recent build before the k-th that did not report a
\* cache hit, the first tag when there is none
BaselineBefore(k) ==
  IF NoHitBefore(k) = {} THEN runs[1].tag
  ELSE runs[CHOOSE j \in NoHitBefore(k) : \A i \in NoHitBefore(k) : i <= j].tag

VerdictPassed(k) ==
  /\ k \in 2..Len(runs)
  /\ ~(/\ k = Len(runs)
       /\ test_result # None
       /\ Raised(test_result)
       /\ test_result.message = "Cache hit error")

\* C34: a rebuild expected to miss passes the test of its verdict only if
\* the output of the tool holds the miss sentinel, and no rebuild passes it
\* with an output that holds neither sentinel or both.
C34_VerdictFromOneSentinel ==
  \A k \in 2..Len(runs) :
    VerdictPassed(k) =>
      /\ runs[k].expected = Some(FALSE) => runs[k].cache_miss
      /\ runs[k].cache_hit # runs[k].cache_miss

\* an expectation of the case failed: the first build was not a miss, the
\* content of its image is not the expected one, a rebuild's verdict is not
\* the expected one, or the digests of two compared tags fail an assertion
ManifestsFailed(c) ==
  LET r == _assert_image_manifests(compared[c].first_manifests, compared[c].nth_manifests)
  IN r # None /\ r[1].raised = "AssertionError"
ExpectationFailed ==
  \/ Len(runs) >= 1 /\ ~runs[1].cache_miss
  \/ Len(runs) >= 1 /\ runs[1].contents = Some("1")
  \/ \E k \in 2..Len(runs) : runs[k].cache_hit # runs[k].expected[1]
  \/ \E c \in 1..Len(compared) : ManifestsFailed(c)

\* C35: when run_test_case is over, a failed expectation is in the error of
\* the TestCaseResult it returned, and a returned TestCaseResult has error
\* None exactly if no expectation failed.
C35_FailuresInReturnValue ==
  /\ (run_pc \in {"returned", "raised"} /\ ExpectationFailed)
       => (run_pc = "returned" /\ test_result.error # None)
  /\ run_pc = "returned" => (test_result.error = None <=> ~ExpectationFailed)

\* run_test_case is over
RunOver == run_pc \in {"returned", "raised"}

\* C36: once create_test_environment has returned (the try block was
\* entered: first_tag is set by its first statement), the temporary
\* directory of the case does not exist when run_test_case is over,
\* whether it returned a pass, returned an error or raised.
C36_TempDirDeletedOnEveryExit ==
  (RunOver /\ first_tag # None) => (temp_dir # None /\ temp_dir[1] \notin temp_dirs)

\* the case ends with a failed assertion on the digests, after its
\* directory was made
C36_Witness ==
  /\ RunOver
  /\ first_tag # None
  /\ Raised(test_result)
  /\ test_result.raised = "AssertionError"
  /\ Len(compared) >= 1
  /\ temp_dir = Some("mimosa_test_1")
  /\ temp_dirs = {}

\* the processes started for the i-th enumerated case (a case is its
\* configuration with its output directory, which mkdtemp made for it)
StartedFor(i) ==
  {p \in DOMAIN process_to_config :
     /\ process_to_config[p].cfg = test_configs[i].cfg
     /\ process_to_config[p].outdir = test_configs[i].outdir}

\* no worker ended with a failure
NoWorkerFailed == \A p \in DOMAIN exitcode : exitcode[p] \in {None, Some(0)}

\* C37: every process runs an enumerated case and no case has two
\* processes; when the run is over and no worker failed, every case has
\* exactly one process, nothing is pending or in flight and total_tests_run
\* is the number of enumerated cases.
C37_EveryCaseStartedOnce ==
  /\ \A p \in DOMAIN process_to_config :
       \E i \in 1..Len(test_configs) : p \in StartedFor(i)
  /\ \A i \in 1..Len(test_configs) : Cardinality(StartedFor(i)) <= 1
  /\ (pc = "exit" /\ NoWorkerFailed) =>
       /\ \A i \in 1..Len(test_configs) : Cardinality(StartedFor(i)) = 1
       /\ pending_test_configs = <<>>
       /\ running_processes = <<>>
       /\ total_tests_run = Len(test_configs)

\* a run of more cases than workers ends with every case passed
C37_Witness ==
  /\ pc = "exit"
  /\ NoWorkerFailed
  /\ Len(test_configs) > max_workers
  /\ total_tests_run = Len(test_configs)
  /\ Len(all_processes) = Len(test_configs)

\* a scheduling pass is over and the poll has not looked at a process yet
PassOver == pc = "poll" /\ poll_i = 1

\* C38: when a scheduling pass is over, before the poll, nothing is pending
\* or max_workers processes are in flight; so the slot of a worker the poll
\* saw end with 0 is taken again by the next pass while cases are pending.
C38_WorkConserving ==
  /\ [](PassOver => (\/ pending_test_configs = <<>>
                     \/ Len(running_processes) = max_workers))
  /\ [][(pc = "start" /\ pc' = "poll") =>
          (\/ pending_test_configs' = <<>>
           \/ Len(running_processes') = max_workers)]_vars

\* a worker ended with 0 and left the list, and the next pass started the
\* case that was pending in its slot
C38_Witness ==
  /\ PassOver
  /\ Len(running_processes) = max_workers
  /\ Len(all_processes) = max_workers + 1
  /\ \E p \in DOMAIN exitcode :
       /\ exitcode[p] = Some(0)
       /\ \A i \in 1..Len(running_processes) : running_processes[i] # p
  /\ \E i \in 1..Len(running_processes) :
       running_processes[i] = all_processes[max_workers + 1]

(***************************************************************************)
(* Termination of the scheduler.  main is one thread of sequential code:   *)
(* whenever it has a next statement it executes it, which is weak fairness *)
(* of the steps of main.  Nothing in the code makes a worker end: that     *)
(* every started worker ends is the hypothesis of the property, not a      *)
(* fairness condition of the specification.                                *)
(***************************************************************************)
MainStep ==
  \/ EnumStep \/ EnumDone
  \/ LoopHead \/ StartProcess \/ StartDone
  \/ PollAlive \/ PollPassed \/ PollFailed \/ PollDone
  \/ ReadLog \/ ReadLogRaises
  \/ CleanupStep \/ WriteSummary \/ Finish

\* main under an environment that makes MaxCases cases, more than workers
InitLive == InitWith(RepeatEnv(MaxCases))
SpecLive == InitLive /\ [][Next]_vars /\ WF_vars(MainStep)

\* every process started so far has ended
AllStartedExited == \A p \in DOMAIN exitcode : exitcode[p] # None

\* the while loop of the scheduler is over: it ended or an exception left it
LoopOver == pc \in {"cleanup", "after_finally", "exit"}

\* C39: if every started worker eventually ends, the scheduler's loop is
\* eventually over, all cases run or after the first failure; the loop
\* waits for a worker that never ends for ever.
C39_SchedulerTerminates == ([]<>AllStartedExited) => <>LoopOver

\* the loop ends by itself after more cases than workers ran and ended
C39_Witness ==
  /\ LoopOver
  /\ pending_exc = NoException
  /\ AllStartedExited
  /\ Len(all_processes) > max_workers
  /\ running_processes = <<>>

=============================================================================
